---- MODULE Spec2Model ----
(***************************************************************************)
(* cpplinq: the lazy sequence engine of Enumerable<T>.                     *)
(*                                                                         *)
(* The shared State of a sequence is Enumerable<T>::Controller's           *)
(* std::shared_ptr<std::variant<CoroutineHandle<T>, Container>>.  The      *)
(* model keeps one cell per variant object; Enumerable values, iterators   *)
(* and the iterators held inside coroutine frames refer to cells by id.    *)
(*                                                                         *)
(* A coroutine frame is modelled operationally: promise_type's             *)
(* initial_suspend is std::suspend_never, so creating a generator runs its *)
(* body up to the first co_yield; every later coroutine_() runs it from    *)
(* one co_yield to the next (or to final_suspend).                         *)
(*                                                                         *)
(* Use of a coroutine handle whose frame was destroyed (Flush of the       *)
(* State while an iterator still holds the raw handle), resumption of a    *)
(* coroutine already at final_suspend, and signed overflow are undefined   *)
(* behaviour: each is a nondeterministic choice (parameter u) between the  *)
(* program trapping ("trap") and the operation going on with what memory   *)
(* holds ("stale": a destroyed frame was always run to completion first,   *)
(* so its stale memory reads as done; an overflowing int wraps).           *)
(*                                                                         *)
(* An exception thrown by a callback leaves the operation it is thrown in: *)
(* it is carried in the memory as thrown (crashed being set with it, so    *)
(* that every operator on the way out leaves the memory as it is), until   *)
(* the caller of the operation catches it.                                 *)
(***************************************************************************)
EXTENDS Integers, Sequences, FiniteSets, TLC

\* Longest source sequence (count of Range, size of an initializer list).
MaxCount == 3

\* int is 32 bits wide.
IntMax == 2147483647
IntMin == -IntMax - 1

StateIds == {1, 2, 3, 4}
SeqIds == {"a", "b", "r"}
ItIds == {"i", "j"}
UB == {"stale", "trap"}

VARIABLES
    heap,        \* [cells: one record per variant object, crashed: the program trapped,
                 \*  thrown: the exception in flight (0 = none)]
    seqs,        \* Enumerable values: controller_ of each, 0 = empty shared_ptr
    its,         \* Enumerable::iterator values held by the caller
    lastStable,  \* per State: elements of the latest stable-access traversal
    lastFinal,   \* per State: elements of the latest complete final-access traversal
    stables,     \* per State: number of stable-access traversals (capped at 2)
    finals,      \* per State: number of complete final-access traversals (capped at 2)
    scn,         \* operator scenario: the inputs of an operator run
    pc,          \* operator scenario: position
    out1,        \* operator scenario: elements read from the first result
    out2         \* operator scenario: elements read from the second result

vars == <<heap, seqs, its, lastStable, lastFinal, stables, finals, scn, pc, out1, out2>>

Min(a, b) == IF a < b THEN a ELSE b
Max(a, b) == IF a > b THEN a ELSE b

\* The marker of "no traversal yet" in lastStable / lastFinal.
NoRead == <<-1>>

-----------------------------------------------------------------------------
(* Comparers and the standard containers the operators collect into *)

\* the element values of the set, grouping and ordering runs
Vals == {1, 2, 3}

\* The arguments of an operator call:
\*   op        "Distinct", "Union", "Except", "Intersect", "GroupBy", "GroupJoin",
\*             "Join", "OrderBy"
\*   strategy  "Hash", "Less", "Equal": the explicit-strategy variant
\*   cmp       the comparer type argument (TEqual, TLess or TComparer)
\*   keysel    the key selector
\*   other     the elements of the second sequence (other / inner)
\*   order     the iteration order of the unordered containers of the build, and
\*             the order std::sort leaves equivalent elements in
NoQuery == [op |-> "none", strategy |-> "none", cmp |-> "none", keysel |-> "none",
            other |-> <<>>, order |-> <<>>]

\* key selectors: the parity class of x (1 for odd, 2 for even), or x itself
KeyOf(sel, x) == IF sel = "parity" THEN (IF x % 2 = 0 THEN 2 ELSE 1) ELSE x

\* TEqual: std::equal_to, or a comparer that reports values of one parity equal
Equal(cmp, a, b) == IF cmp = "same_parity" THEN a % 2 = b % 2 ELSE a = b

\* TLess / TComparer: std::less unless std::greater is asked for
Less(cmp, a, b) == IF cmp = "greater" THEN a > b ELSE a < b

\* equivalence under a strict weak order: !(a < b) && !(b < a)
Equiv(cmp, a, b) == ~Less(cmp, a, b) /\ ~Less(cmp, b, a)

\* The orders an unordered container may iterate in: any order of the values.
Orders == {o \in [1 .. Cardinality(Vals) -> Vals] : \A i, j \in DOMAIN o : i # j => o[i] # o[j]}

Rank(o, x) == CHOOSE i \in DOMAIN o : o[i] = x

Elems(xs) == {xs[i] : i \in DOMAIN xs}

\* std::vector with std::find_if(..., equal) before emplace_back / push_back
RECURSIVE AddUnique(_, _, _)
AddUnique(values, xs, cmp) ==
    IF xs = <<>> THEN values
    ELSE AddUnique(IF \E i \in DOMAIN values : Equal(cmp, Head(xs), values[i])
                   THEN values ELSE Append(values, Head(xs)),
                   Tail(xs), cmp)

\* std::set<value_type, TLess>::emplace / insert: kept sorted, one element per
\* equivalence class
SetInsert(values, x, cmp) ==
    IF \E i \in DOMAIN values : Equiv(cmp, values[i], x) THEN values
    ELSE LET n == Cardinality({i \in DOMAIN values : Less(cmp, values[i], x)})
         IN  SubSeq(values, 1, n) \o <<x>> \o SubSeq(values, n + 1, Len(values))

RECURSIVE SetOf(_, _, _)
SetOf(values, xs, cmp) ==
    IF xs = <<>> THEN values ELSE SetOf(SetInsert(values, Head(xs), cmp), Tail(xs), cmp)

\* std::unordered_set<value_type, THash>: the elements distinct under ==, iterated
\* in the order of the build
HashSetOf(S, o) == SelectSeq(o, LAMBDA v : v \in S)

\* The order of an associative container with ordering ord:
\*   kind "multimap"   std::multimap<key, value, TLess>: sorted by key, an element
\*                     behind the elements of equivalent key inserted before it
\*   kind "unordered"  std::unordered_multimap<key, value, THash>: elements of equal
\*                     key are adjacent, every other order is the build's
\*   kind "sort"       std::sort with comp(lhs, rhs) = comparer(keySelector(lhs),
\*                     keySelector(rhs)): sorted by key, elements of equivalent key
\*                     in the order the build leaves them in
\* Before(ord, y, x): y, already placed, stays before the new element x
Before(ord, y, x) ==
    LET ky == KeyOf(ord.sel, y)
        kx == KeyOf(ord.sel, x)
    IN  CASE ord.kind = "multimap" -> ~Less(ord.cmp, kx, ky)
          [] ord.kind = "unordered" ->
                 \/ Rank(ord.o, ky) < Rank(ord.o, kx)
                 \/ ky = kx /\ Rank(ord.o, y) <= Rank(ord.o, x)
          [] OTHER ->
                 \/ Less(ord.cmp, ky, kx)
                 \/ Equiv(ord.cmp, ky, kx) /\ Rank(ord.o, y) <= Rank(ord.o, x)

\* xs placed one by one into the ordered sequence acc
RECURSIVE Inserted(_, _, _)
Inserted(acc, xs, ord) ==
    IF xs = <<>> THEN acc
    ELSE LET n == Cardinality({i \in DOMAIN acc : Before(ord, acc[i], Head(xs))})
         IN  Inserted(SubSeq(acc, 1, n) \o <<Head(xs)>> \o SubSeq(acc, n + 1, Len(acc)),
                      Tail(xs), ord)

MultiMapOf(xs, sel, cmp) ==
    Inserted(<<>>, xs, [kind |-> "multimap", sel |-> sel, cmp |-> cmp, o |-> <<>>])

UnorderedMultiMapOf(xs, sel, o) ==
    Inserted(<<>>, xs, [kind |-> "unordered", sel |-> sel, cmp |-> "none", o |-> o])

StdSort(xs, sel, cmp, o) ==
    Inserted(<<>>, xs, [kind |-> "sort", sel |-> sel, cmp |-> cmp, o |-> o])

Keys(xs, sel) == [i \in DOMAIN xs |-> KeyOf(sel, xs[i])]

-----------------------------------------------------------------------------
(* Iterators, frames, cells *)

\* constexpr iterator() noexcept = default: the end() sentinel.
NoIt == [ctrl |-> 0, impl |-> "null", h |-> 0, pos |-> 0]

\* A coroutine frame: the locals of the generator body and its promise.
\*   kind   which generator body
\*   start, count   locals of Range / count of Take and Skip
\*   it     the iterator i the body holds over its source
\*   value  promise_type::value_ (0 = std::nullopt)
\*   done   coroutine_handle::done()
\*   pulls  (ghost) number of ++i the body executed
\*   calls  (ghost) number of selector / predicate invocations
\*   pred   the predicate a Where body was called with
\*   throws the element on which the selector / predicate of the call throws
\*          (0 = it never throws)
\*   q      the arguments of a set / grouping / ordering operator
\*   values, idx   the local container `values` of such a body and the position
\*          of the loop over it
NoFrame == [kind |-> "none", start |-> 0, count |-> 0, it |-> NoIt,
            value |-> 0, done |-> TRUE, pulls |-> 0, calls |-> 0,
            q |-> NoQuery, values |-> <<>>, idx |-> 0, pred |-> "even", throws |-> 0]

\* One variant object.
\*   tag        "Free" (never allocated), "Coroutine", "Container", "Released"
\*   frame      the coroutine frame (kept as stale memory once destroyed)
\*   container  the std::vector
\*   ghosts: produced = co_yields executed; resumes = coroutine_() calls;
\*   consumed = elements passed over through iterators; exhausted = run to
\*   done through an iterator; destroyed = frame destructions;
\*   flushes = Coroutine -> Container collapses; orig = the whole sequence
\*   of a source
FreeCell == [tag |-> "Free", frame |-> NoFrame, container |-> <<>>,
             produced |-> 0, resumes |-> 0, consumed |-> <<>>, exhausted |-> FALSE,
             destroyed |-> 0, flushes |-> 0, orig |-> <<>>]

Crash(w) == [w EXCEPT !.crashed = TRUE]

IsCoroutine(w, c) == c # 0 /\ w.cells[c].tag = "Coroutine"

IsContainer(w, c) == c # 0 /\ w.cells[c].tag = "Container"

\* Enumerable<T>::iterator::iterator(const Controller&)
IteratorCtor(w, c) ==
    IF IsCoroutine(w, c) THEN [ctrl |-> c, impl |-> "co", h |-> c, pos |-> 0]
    ELSE IF IsContainer(w, c) THEN [ctrl |-> c, impl |-> "ct", h |-> 0, pos |-> 0]
    ELSE NoIt

\* The raw coroutine handle of a CoroutineIterator refers to a destroyed frame.
Dangling(w, it) == it.impl = "co" /\ w.cells[it.h].tag # "Coroutine"

\* Iterator<T>::HasNext
ItHasNext(w, it) ==
    CASE it.impl = "co" -> ~w.cells[it.h].frame.done
      [] it.impl = "ct" -> it.pos < Len(w.cells[it.ctrl].container)
      [] OTHER -> FALSE

\* iterator::operator!=(end()): !rhs.controller_ && impl_ && impl_->HasNext()
NotEnd(w, it) == it.impl # "null" /\ ItHasNext(w, it)

\* Iterator<T>::Value
ItValue(w, it) ==
    IF it.impl = "co" THEN w.cells[it.h].frame.value
    ELSE w.cells[it.ctrl].container[it.pos + 1]

\* promise_type::yield_value
Yield(w, k, v) ==
    [w EXCEPT !.cells[k].frame.value = v, !.cells[k].produced = @ + 1]

\* falling off the body: final_suspend
Finish(w, k) == [w EXCEPT !.cells[k].frame.done = TRUE]

\* the exception a throwing callback throws on element x
Thrown(x) == 100 + x

ThrowSwallowed(w, k, e) == Finish(w, k)

\* An exception e leaves the body of frame k: promise_type::unhandled_exception
\* rethrows it, which leaves the coroutine at its final suspend point, and e goes on
\* to whoever resumed the coroutine (or called the operator, on the first run).
Throw(w, k, e) ==
    [w EXCEPT !.cells[k].frame.done = TRUE, !.thrown = e, !.crashed = TRUE]

\* user callbacks of the modelled pipelines
Sel(x) == x * 10

Pred(x) == x % 2 = 0

\* the predicates passed to Where, Single and Last: detail::noop_predicate, Pred and
\* the lambdas x < 2, x < 3 of TestSingle
Preds == {"all", "even", "lt2", "lt3"}

Holds(p, x) ==
    CASE p = "all" -> TRUE
      [] p = "lt2" -> x < 2
      [] p = "lt3" -> x < 3
      [] OTHER -> Pred(x)

-----------------------------------------------------------------------------
(* Coroutine bodies.  XStart runs a body from its entry to the first        *)
(* suspension (initial_suspend never suspends); XResume runs it from the    *)
(* co_yield it is suspended at to the next suspension.                      *)

RECURSIVE Resume(_, _, _)

\* (ghost) the element an iterator passes over, and exhaustion through an iterator
Passed(w, h) ==
    IF w.cells[h].tag = "Coroutine" /\ ~w.cells[h].frame.done
    THEN [w EXCEPT !.cells[h].consumed = Append(@, w.cells[h].frame.value)]
    ELSE w

Exhaust(w, h) ==
    IF w.cells[h].tag = "Coroutine" /\ w.cells[h].frame.done
    THEN [w EXCEPT !.cells[h].exhausted = TRUE]
    ELSE w

\* (ghost) a complete traversal through begin() && of the generator of State c ended
Exhausted(w, c) == IF w.crashed THEN w ELSE [w EXCEPT !.cells[c].exhausted = TRUE]

\* Iterator<T>::Next: CoroutineIterator resumes the coroutine, ContainerIterator
\* increments begin_.  Returns the memory and the iterator afterwards.
ItNext(w, it, u) ==
    IF it.impl = "co"
    THEN [w |-> Exhaust(Resume(Passed(w, it.h), it.h, u), it.h), it |-> it]
    ELSE [w |-> w, it |-> [it EXCEPT !.pos = @ + 1]]

\* ++i inside the body of frame k
\* the iterator of frame k after ++i (n is what Next returns)
Stepped(n, k) ==
    IF n.w.thrown # 0 THEN Throw(n.w, k, n.w.thrown)
    ELSE IF n.w.crashed THEN n.w
    ELSE [n.w EXCEPT !.cells[k].frame.it = n.it, !.cells[k].frame.pulls = @ + 1]

FrameNext(w, k, u) ==
    IF w.crashed THEN w ELSE Stepped(ItNext(w, w.cells[k].frame.it, u), k)

\* i != j inside the body of frame k traps on a destroyed frame
Traps(w, k, u) == Dangling(w, w.cells[k].frame.it) /\ u = "trap"

\* Range: for (; count > 0; ++start, --count) co_yield start;
RangeTest(w, k) ==
    LET f == w.cells[k].frame
    IN  IF f.count > 0 THEN Yield(w, k, f.start) ELSE Finish(w, k)

RangeResume(w, k) ==
    RangeTest([w EXCEPT !.cells[k].frame.start = @ + 1,
                        !.cells[k].frame.count = @ - 1], k)

TakeTestOffByOne(w, k, u) ==
    LET f == w.cells[k].frame
    IN  IF w.crashed THEN w
        ELSE IF f.count >= 0 /\ Traps(w, k, u) THEN Crash(w)
        ELSE IF f.count >= 0 /\ NotEnd(w, f.it) THEN Yield(w, k, ItValue(w, f.it))
        ELSE Finish(w, k)

\* Take: for (i = begin(); (count > 0) && (i != j); --count, ++i) co_yield *i;
TakeTest(w, k, u) ==
    LET f == w.cells[k].frame
    IN  IF w.crashed THEN w
        ELSE IF f.count > 0 /\ Traps(w, k, u) THEN Crash(w)
        ELSE IF f.count > 0 /\ NotEnd(w, f.it) THEN Yield(w, k, ItValue(w, f.it))
        ELSE Finish(w, k)

TakeResume(w, k, u) ==
    TakeTest(FrameNext([w EXCEPT !.cells[k].frame.count = @ - 1], k, u), k, u)

\* Skip: for (; (count > 0) && (i != j); --count, ++i) {}
RECURSIVE SkipLoop(_, _, _)
SkipLoop(w, k, u) ==
    LET f == w.cells[k].frame
    IN  IF w.crashed THEN w
        ELSE IF f.count > 0 /\ Traps(w, k, u) THEN Crash(w)
        ELSE IF f.count > 0 /\ NotEnd(w, f.it)
             THEN SkipLoop(FrameNext([w EXCEPT !.cells[k].frame.count = @ - 1], k, u), k, u)
        ELSE w

\* Skip, Select: for (; i != j; ++i) co_yield ...;
SkipTest(w, k, u) ==
    LET f == w.cells[k].frame
    IN  IF w.crashed THEN w
        ELSE IF Traps(w, k, u) THEN Crash(w)
        ELSE IF NotEnd(w, f.it) THEN Yield(w, k, ItValue(w, f.it))
        ELSE Finish(w, k)

SelectTestTwice(w, k, u) ==
    LET f == w.cells[k].frame
    IN  IF w.crashed THEN w
        ELSE IF Traps(w, k, u) THEN Crash(w)
        ELSE IF NotEnd(w, f.it)
             THEN Yield([w EXCEPT !.cells[k].frame.calls = @ + 2], k, Sel(Sel(ItValue(w, f.it))))
        ELSE Finish(w, k)

SelectTest(w, k, u) ==
    LET f == w.cells[k].frame
    IN  IF w.crashed THEN w
        ELSE IF Traps(w, k, u) THEN Crash(w)
        ELSE IF ~NotEnd(w, f.it) THEN Finish(w, k)
        ELSE IF f.throws = ItValue(w, f.it)
             THEN Throw([w EXCEPT !.cells[k].frame.calls = @ + 1], k, Thrown(f.throws))
        ELSE Yield([w EXCEPT !.cells[k].frame.calls = @ + 1], k, Sel(ItValue(w, f.it)))

\* Where: for (; i != j; ++i) if (predicate(*i)) co_yield *i;
RECURSIVE WhereScan(_, _, _)
WhereScan(w, k, u) ==
    LET f == w.cells[k].frame
    IN  IF w.crashed THEN w
        ELSE IF Traps(w, k, u) THEN Crash(w)
        ELSE IF ~NotEnd(w, f.it) THEN Finish(w, k)
        ELSE LET w1 == [w EXCEPT !.cells[k].frame.calls = @ + 1]
             IN  IF f.throws = ItValue(w, f.it) THEN Throw(w1, k, Thrown(f.throws))
                 ELSE IF Holds(f.pred, ItValue(w, f.it)) THEN Yield(w1, k, ItValue(w, f.it))
                 ELSE WhereScan(FrameNext(w1, k, u), k, u)

\* Append: for (i = begin(); i != j; ++i) co_yield *i;  co_yield element;
\* count holds element, idx is 1 once element was yielded
AppendTest(w, k, u) ==
    LET f == w.cells[k].frame
    IN  IF w.crashed THEN w
        ELSE IF Traps(w, k, u) THEN Crash(w)
        ELSE IF NotEnd(w, f.it) THEN Yield(w, k, ItValue(w, f.it))
        ELSE Yield([w EXCEPT !.cells[k].frame.idx = 1], k, f.count)

AppendResume(w, k, u) ==
    IF w.cells[k].frame.idx = 1 THEN Finish(w, k)
    ELSE AppendTest(FrameNext(w, k, u), k, u)

\* Prepend: i = begin(); co_yield element; for (; i != j; ++i) co_yield *i;
\* idx is 1 at the co_yield of element, 2 in the loop
PrependStart(w, k) ==
    Yield([w EXCEPT !.cells[k].frame.idx = 1], k, w.cells[k].frame.count)

PrependResume(w, k, u) ==
    IF w.cells[k].frame.idx = 1 THEN SkipTest([w EXCEPT !.cells[k].frame.idx = 2], k, u)
    ELSE SkipTest(FrameNext(w, k, u), k, u)

\* for (auto i = std::move(*this).begin(), j = end(); i != j; ++i) inside the body
\* of frame k, collecting *i: the memory afterwards and the elements read
RECURSIVE Gather(_, _, _, _)
Gather(w, k, acc, u) ==
    LET f == w.cells[k].frame
    IN  IF w.crashed THEN [w |-> w, out |-> acc]
        ELSE IF Traps(w, k, u) THEN [w |-> Crash(w), out |-> acc]
        ELSE IF ~NotEnd(w, f.it) THEN [w |-> w, out |-> acc]
        ELSE Gather(FrameNext(w, k, u), k, Append(acc, ItValue(w, f.it)), u)

\* DistinctHash: values.emplace(source) into an unordered_set, then the set is yielded
DistinctHash(xs, o) == HashSetOf(Elems(xs), o)

\* DistinctLess: values.emplace(source) into a std::set, then the set is yielded
DistinctLess(xs, cmp) == SetOf(<<>>, xs, cmp)

DistinctEqualAdjacent(xs, cmp) ==
    LET idx == SelectSeq([i \in DOMAIN xs |-> i],
                         LAMBDA i : i = 1 \/ ~Equal(cmp, xs[i], xs[i - 1]))
    IN  [n \in DOMAIN idx |-> xs[idx[n]]]

\* DistinctEqual: emplace_back(source) unless find_if with equal(source, value) finds one
DistinctEqual(xs, cmp) == AddUnique(<<>>, xs, cmp)

\* UnionHash: the unordered_set is constructed from other, then every source is inserted
UnionHash(xs, other, o) == HashSetOf(Elems(other) \cup Elems(xs), o)

\* UnionLess: the std::set is constructed from other, then every source is inserted
UnionLess(xs, other, cmp) == SetOf(SetOf(<<>>, other, cmp), xs, cmp)

UnionEqualAppendsAll(xs, other, cmp) == DistinctEqual(other, cmp) \o xs

\* UnionEqual: values is constructed from other.DistinctEqual<TEqual>(), then every
\* source (xs is what DistinctEqual of *this yields) not found in values is pushed back
UnionEqual(xs, other, cmp) == AddUnique(DistinctEqual(other, cmp), xs, cmp)

\* How a container or a loop compares the key a it is given with the key b it holds:
\*   "=="     operator== (unordered containers, and the find_if of GroupByEqual)
\*   "equiv"  equivalence under TLess (std::set, std::map, std::multimap)
\*   "equal"  equal(a, b) with the TEqual of the call
\*   "equal'" equal(b, a) with the TEqual of the call
Same(how, cmp, a, b) ==
    CASE how = "==" -> a = b
      [] how = "equiv" -> Equiv(cmp, a, b)
      [] how = "equal" -> Equal(cmp, a, b)
      [] OTHER -> Equal(cmp, b, a)

ElementsOfReversed(xs, sel, k, how, cmp) ==
    LET g == SelectSeq(xs, LAMBDA x : Same(how, cmp, KeyOf(sel, x), k))
    IN  [i \in DOMAIN g |-> Sel(g[Len(g) + 1 - i])]

\* the selector applied to the elements of xs whose key is k
ElementsOf(xs, sel, k, how, cmp) ==
    LET g == SelectSeq(xs, LAMBDA x : Same(how, cmp, KeyOf(sel, x), k))
    IN  [i \in DOMAIN g |-> Sel(g[i])]

\* GroupByHash: values[keySelector(source)].emplace_back(elementSelector(source)) on an
\* unordered_map, then resultSelector(key, elements) for every entry
GroupByHash(xs, sel, o) ==
    LET keys == HashSetOf(Elems(Keys(xs, sel)), o)
    IN  [i \in DOMAIN keys |->
            <<keys[i], ElementsOf(xs, sel, keys[i], "==", "hash")>>]

\* GroupByLess: the same on a std::map ordered by TLess
GroupByLess(xs, sel, cmp) ==
    LET keys == SetOf(<<>>, Keys(xs, sel), cmp)
    IN  [i \in DOMAIN keys |->
            <<keys[i], ElementsOf(xs, sel, keys[i], "equiv", cmp)>>]

\* GroupByEqual: a vector of (key, elements); the entry of a key is looked up with
\* find_if and value.first == key; TEqual equal{} is declared and not used
GroupByEqual(xs, sel, cmp) ==
    LET keys == AddUnique(<<>>, Keys(xs, sel), "equal_to")
    IN  [i \in DOMAIN keys |->
            <<keys[i], ElementsOf(xs, sel, keys[i], "==", cmp)>>]

\* the elements of inner whose key matches k, in the order of inner
Matching(inner, sel, k, how, cmp) ==
    SelectSeq(inner, LAMBDA e : Same(how, cmp, KeyOf(sel, e), k))

\* GroupJoinHash: every source is inserted into an unordered_multimap under its key,
\* every inner element is appended to the entries of its equal_range, then
\* resultSelector(outer, elements) for every entry in the order of the multimap
GroupJoinHash(xs, inner, sel, o) ==
    LET values == UnorderedMultiMapOf(xs, sel, o)
    IN  [i \in DOMAIN values |->
            <<values[i], Matching(inner, sel, KeyOf(sel, values[i]), "==", "hash")>>]

\* GroupJoinLess: the same on a std::multimap ordered by TLess
GroupJoinLess(xs, inner, sel, cmp) ==
    LET values == MultiMapOf(xs, sel, cmp)
    IN  [i \in DOMAIN values |->
            <<values[i], Matching(inner, sel, KeyOf(sel, values[i]), "equiv", cmp)>>]

\* GroupJoinEqual: a vector of entries in the order of the source; an inner element is
\* appended to every entry with equal(innerKey, value.first)
GroupJoinEqual(xs, inner, sel, cmp) ==
    [i \in DOMAIN xs |->
        <<xs[i], Matching(inner, sel, KeyOf(sel, xs[i]), "equal", cmp)>>]

\* OrderBy(keySelector, comparer): push_back of every source, std::sort, then the
\* vector is yielded
OrderBy(xs, sel, cmp, o) == StdSort(xs, sel, cmp, o)

\* The container `values` of a collecting body once its loop over the source xs ended,
\* as the sequence of results its range-for yields.
Values(q, xs) ==
    CASE q.op = "Distinct" /\ q.strategy = "Hash" -> DistinctHash(xs, q.order)
      [] q.op = "Distinct" /\ q.strategy = "Less" -> DistinctLess(xs, q.cmp)
      [] q.op = "Distinct" /\ q.strategy = "Equal" -> DistinctEqual(xs, q.cmp)
      [] q.op = "Union" /\ q.strategy = "Hash" -> UnionHash(xs, q.other, q.order)
      [] q.op = "Union" /\ q.strategy = "Less" -> UnionLess(xs, q.other, q.cmp)
      [] q.op = "Union" /\ q.strategy = "Equal" -> UnionEqual(xs, q.other, q.cmp)
      [] q.op = "GroupBy" /\ q.strategy = "Hash" -> GroupByHash(xs, q.keysel, q.order)
      [] q.op = "GroupBy" /\ q.strategy = "Less" -> GroupByLess(xs, q.keysel, q.cmp)
      [] q.op = "GroupBy" /\ q.strategy = "Equal" -> GroupByEqual(xs, q.keysel, q.cmp)
      [] q.op = "GroupJoin" /\ q.strategy = "Hash" ->
             GroupJoinHash(xs, q.other, q.keysel, q.order)
      [] q.op = "GroupJoin" /\ q.strategy = "Less" ->
             GroupJoinLess(xs, q.other, q.keysel, q.cmp)
      [] q.op = "GroupJoin" /\ q.strategy = "Equal" ->
             GroupJoinEqual(xs, q.other, q.keysel, q.cmp)
      [] q.op = "OrderBy" -> OrderBy(xs, q.keysel, q.cmp, q.order)
      [] OTHER -> xs

\* for (auto&& value : values) co_yield value;
NextValue(w, k) ==
    LET f == w.cells[k].frame
    IN  IF w.crashed THEN w
        ELSE IF f.idx < Len(f.values)
        THEN Yield([w EXCEPT !.cells[k].frame.idx = @ + 1], k, f.values[f.idx + 1])
        ELSE Finish(w, k)

\* the source read (g is what Gather returns): values is filled, its first value yielded
Collected(g, k) ==
    IF g.w.crashed THEN g.w
    ELSE NextValue([g.w EXCEPT !.cells[k].frame.values =
                                   Values(g.w.cells[k].frame.q, g.out)], k)

\* A collecting body (Distinct, Union, GroupBy, GroupJoin, OrderBy) from its entry to
\* its first co_yield: the whole source is read, then the first value is yielded.
Collecting(w, k, u) == Collected(Gather(w, k, <<>>, u), k)

AbsentFromEmpty(q, source) == TRUE

\* values.find(source) == std::end(values) of ExceptHash / ExceptLess, the find_if of
\* ExceptEqual, with values constructed from other
Absent(q, source) ==
    CASE q.strategy = "Hash" -> source \notin Elems(q.other)
      [] q.strategy = "Less" -> \A i \in DOMAIN q.other : ~Equiv(q.cmp, source, q.other[i])
      [] OTHER -> \A i \in DOMAIN q.other : ~Equal(q.cmp, source, q.other[i])

\* Except: for (i = DistinctX().begin(); i != j; ++i) if (absent) co_yield source;
RECURSIVE ExceptScan(_, _, _)
ExceptScan(w, k, u) ==
    LET f == w.cells[k].frame
    IN  IF w.crashed THEN w
        ELSE IF Traps(w, k, u) THEN Crash(w)
        ELSE IF ~NotEnd(w, f.it) THEN Finish(w, k)
        ELSE IF Absent(f.q, ItValue(w, f.it)) THEN Yield(w, k, ItValue(w, f.it))
        ELSE ExceptScan(FrameNext(w, k, u), k, u)

PresentAlways(q, source) == TRUE

\* values.find(source) != values.end() of IntersectHash / IntersectLess, the find_if of
\* IntersectEqual, with values constructed from other
Present(q, source) ==
    CASE q.strategy = "Hash" -> source \in Elems(q.other)
      [] q.strategy = "Less" -> \E i \in DOMAIN q.other : Equiv(q.cmp, source, q.other[i])
      [] OTHER -> \E i \in DOMAIN q.other : Equal(q.cmp, source, q.other[i])

\* Intersect: for (i = DistinctX().begin(); i != j; ++i) if (present) co_yield source;
RECURSIVE IntersectScan(_, _, _)
IntersectScan(w, k, u) ==
    LET f == w.cells[k].frame
    IN  IF w.crashed THEN w
        ELSE IF Traps(w, k, u) THEN Crash(w)
        ELSE IF ~NotEnd(w, f.it) THEN Finish(w, k)
        ELSE IF Present(f.q, ItValue(w, f.it)) THEN Yield(w, k, ItValue(w, f.it))
        ELSE IntersectScan(FrameNext(w, k, u), k, u)

\* values.equal_range(outerKeySelector(source)) of JoinHash and JoinLess, the loop over
\* values with equal(outerKeySelector(source), value.first) of JoinEqual: the inner
\* elements paired with source, in the order the loop meets them
JoinMatches(q, source) ==
    LET k == KeyOf(q.keysel, source)
    IN  CASE q.strategy = "Hash" ->
                 Matching(UnorderedMultiMapOf(q.other, q.keysel, q.order), q.keysel, k,
                          "==", q.cmp)
          [] q.strategy = "Less" ->
                 Matching(MultiMapOf(q.other, q.keysel, q.cmp), q.keysel, k,
                          "equiv", q.cmp)
          [] OTHER -> Matching(q.other, q.keysel, k, "equal'", q.cmp)

\* the first result of a source with matches
JoinYield(w, k, source, matches) ==
    Yield([w EXCEPT !.cells[k].frame.values = matches, !.cells[k].frame.idx = 1],
          k, <<source, matches[1]>>)

\* whether the source at the iterator of frame k has a match
Matched(w, k) ==
    JoinMatches(w.cells[k].frame.q, ItValue(w, w.cells[k].frame.it)) # <<>>

\* Join: for (i = begin(); i != j; ++i) for (every match) co_yield
\* resultSelector(source, match); the scan for the next source with a match
RECURSIVE JoinScan(_, _, _)
JoinScan(w, k, u) ==
    IF w.crashed THEN w
    ELSE IF Traps(w, k, u) THEN Crash(w)
    ELSE IF ~NotEnd(w, w.cells[k].frame.it) THEN Finish(w, k)
    ELSE IF ~Matched(w, k) THEN JoinScan(FrameNext(w, k, u), k, u)
    ELSE JoinYield(w, k, ItValue(w, w.cells[k].frame.it),
                   JoinMatches(w.cells[k].frame.q, ItValue(w, w.cells[k].frame.it)))

\* Join resumed at its co_yield: the next match of the source, else the next source
JoinResume(w, k, u) ==
    LET f == w.cells[k].frame
    IN  IF w.crashed THEN w
        ELSE IF f.idx < Len(f.values)
        THEN Yield([w EXCEPT !.cells[k].frame.idx = @ + 1], k,
                   <<ItValue(w, f.it), f.values[f.idx + 1]>>)
        ELSE JoinScan(FrameNext(w, k, u), k, u)

CollectingKinds == {"Distinct", "Union", "GroupBy", "GroupJoin", "OrderBy"}

\* The body of a set, grouping or ordering operator from its entry to the first
\* suspension.
StartQuery(w, k, u) ==
    LET kind == w.cells[k].frame.kind
    IN  CASE kind \in CollectingKinds -> Collecting(w, k, u)
          [] kind = "Except" -> ExceptScan(w, k, u)
          [] kind = "Intersect" -> IntersectScan(w, k, u)
          [] kind = "Join" -> JoinScan(w, k, u)
          [] OTHER -> w

\* The body from its entry to the first suspension.
Start(w, k, u) ==
    LET kind == w.cells[k].frame.kind
    IN  CASE kind = "Range" -> RangeTest(w, k)
          [] kind = "Take" -> TakeTest(w, k, u)
          [] kind = "Skip" -> SkipTest(SkipLoop(w, k, u), k, u)
          [] kind = "Select" -> SelectTest(w, k, u)
          [] kind = "Where" -> WhereScan(w, k, u)
          [] OTHER -> w

\* The body from the co_yield it is suspended at to the next suspension.
Body(w, k, u) ==
    LET kind == w.cells[k].frame.kind
    IN  CASE kind = "Range" -> RangeResume(w, k)
          [] kind = "Take" -> TakeResume(w, k, u)
          [] kind = "Skip" -> SkipTest(FrameNext(w, k, u), k, u)
          [] kind = "Select" -> SelectTest(FrameNext(w, k, u), k, u)
          [] kind = "Where" -> WhereScan(FrameNext(w, k, u), k, u)
          [] kind \in CollectingKinds -> NextValue(w, k)
          [] kind = "Except" -> ExceptScan(FrameNext(w, k, u), k, u)
          [] kind = "Intersect" -> IntersectScan(FrameNext(w, k, u), k, u)
          [] kind = "Join" -> JoinResume(w, k, u)
          [] kind = "Append" -> AppendResume(w, k, u)
          [] kind = "Prepend" -> PrependResume(w, k, u)
          [] OTHER -> w

\* coroutine_(): resume the frame of State k.  A destroyed frame and a frame at
\* final_suspend must not be resumed.
Resume(w, k, u) ==
    IF w.crashed THEN w
    ELSE IF w.cells[k].tag # "Coroutine" \/ w.cells[k].frame.done
         THEN (IF u = "trap" THEN Crash(w) ELSE w)
    ELSE Body([w EXCEPT !.cells[k].resumes = @ + 1], k, u)

-----------------------------------------------------------------------------
(* Controller *)

\* The loop of Flush:
\*   for (auto coroutine = GetCoroutine(); coroutine && !coroutine.done(); coroutine())
\*       container.push_back(*coroutine.promise());
RECURSIVE DrainSkipsCurrent(_, _, _, _)
DrainSkipsCurrent(w, c, acc, u) ==
    IF w.crashed \/ w.cells[c].frame.done THEN [w |-> w, out |-> acc]
    ELSE LET w1 == Resume(w, c, u)
         IN  IF w1.crashed \/ w1.cells[c].frame.done THEN [w |-> w1, out |-> acc]
             ELSE DrainSkipsCurrent(w1, c, Append(acc, w1.cells[c].frame.value), u)

RECURSIVE DrainDoWhile(_, _, _, _)
DrainDoWhile(w, c, acc, u) ==
    IF w.crashed THEN [w |-> w, out |-> acc]
    ELSE IF w.cells[c].frame.done THEN [w |-> w, out |-> Append(acc, w.cells[c].frame.value)]
    ELSE DrainDoWhile(Resume(w, c, u), c, Append(acc, w.cells[c].frame.value), u)

RECURSIVE Drain(_, _, _, _)
Drain(w, c, acc, u) ==
    IF w.crashed \/ w.cells[c].frame.done THEN [w |-> w, out |-> acc]
    ELSE Drain(Resume(w, c, u), c, Append(acc, w.cells[c].frame.value), u)

\* Controller::Flush: *variant_ = std::move(container) destroys the CoroutineHandle
\* (coroutine_.destroy()) and makes the State a Container.
FlushAgain(w, c, u) ==
    IF c = 0 \/ w.crashed THEN w
    ELSE IF ~IsCoroutine(w, c)
         THEN [w EXCEPT !.cells[c].container = <<>>, !.cells[c].flushes = @ + 1]
    ELSE LET d == Drain(w, c, <<>>, u)
         IN  IF d.w.crashed THEN d.w
             ELSE [d.w EXCEPT !.cells[c].tag = "Container",
                              !.cells[c].container = d.out,
                              !.cells[c].destroyed = @ + 1,
                              !.cells[c].flushes = @ + 1]

Flush(w, c, u) ==
    IF ~IsCoroutine(w, c) THEN w
    ELSE LET d == Drain(w, c, <<>>, u)
         IN  IF d.w.crashed THEN d.w
             ELSE [d.w EXCEPT !.cells[c].tag = "Container",
                              !.cells[c].container = d.out,
                              !.cells[c].destroyed = @ + 1,
                              !.cells[c].flushes = @ + 1]

\* shared_ptr ownership: who holds a Controller on State k
Referenced(w, sq, itr, k) ==
    \/ \E s \in DOMAIN sq : sq[s] = k
    \/ \E c \in DOMAIN itr : itr[c].ctrl = k
    \/ \E k2 \in StateIds : w.cells[k2].tag = "Coroutine" /\ w.cells[k2].frame.it.ctrl = k

ReleaseOneLeaks(w, sq, itr, k) ==
    IF w.cells[k].tag \in {"Coroutine", "Container"} /\ ~Referenced(w, sq, itr, k)
    THEN [w EXCEPT !.cells[k].tag = "Released", !.cells[k].container = <<>>]
    ELSE w

\* The last shared_ptr is gone: ~Variant, and ~CoroutineHandle destroys a live frame.
ReleaseOne(w, sq, itr, k) ==
    IF w.cells[k].tag \in {"Coroutine", "Container"} /\ ~Referenced(w, sq, itr, k)
    THEN [w EXCEPT !.cells[k].tag = "Released",
                   !.cells[k].container = <<>>,
                   !.cells[k].destroyed =
                       @ + (IF w.cells[k].tag = "Coroutine" THEN 1 ELSE 0)]
    ELSE w

\* A frame only holds States created before it: release from the newest down.
Collect(w, sq, itr) ==
    ReleaseOne(ReleaseOne(ReleaseOne(ReleaseOne(w, sq, itr, 4), sq, itr, 3), sq, itr, 2),
               sq, itr, 1)

\* The State a new variant object gets.
Alloc(w) == CHOOSE k \in StateIds :
                w.cells[k].tag = "Free" /\ \A k2 \in StateIds : k2 < k => w.cells[k2].tag # "Free"

HasFree(w) == \E k \in StateIds : w.cells[k].tag = "Free"

-----------------------------------------------------------------------------
(* Construction and operators *)

NewFrame(kind, n, it) ==
    [NoFrame EXCEPT !.kind = kind, !.count = n, !.it = it, !.done = FALSE]

Iota(n) == [x \in 1..n |-> x]

\* Enumerable(const Container&) / Enumerable(std::initializer_list<T>)
NewContainer(w, k, xs) ==
    [w EXCEPT !.cells[k] = [FreeCell EXCEPT !.tag = "Container", !.container = xs,
                                            !.orig = xs]]

\* Enumerable<T>::Range(1, count): get_return_object makes the State, then the body
\* runs to its first co_yield.
NewRange(w, k, count) ==
    Start([w EXCEPT !.cells[k] =
               [FreeCell EXCEPT !.tag = "Coroutine",
                                !.frame = [NewFrame("Range", count, NoIt) EXCEPT !.start = 1],
                                !.orig = Iota(Max(count, 0))]], k, "stale")

\* The && form of Take, Skip, Select, Where on the Enumerable with Controller c:
\* the new State k, its body run to the first co_yield, with
\* i = std::move(*this).begin().
Generator(w, kind, n, c, k, u) ==
    Start([w EXCEPT !.cells[k] =
               [FreeCell EXCEPT !.tag = "Coroutine",
                                !.frame = NewFrame(kind, n, IteratorCtor(w, c))]], k, u)

\* Count() && once the State is flushed: std::size of the Container, 0 when empty.
Size(w, c) == IF IsContainer(w, c) THEN Len(w.cells[c].container) ELSE 0

\* static_cast<int>(Count()) - count, for a >= 0: the difference, and whether it overflows int
Overflows(a, b) == b < 0 /\ a > IntMax + b

Sub32(a, b) == IF Overflows(a, b) THEN ((a - IntMax - 1) - b) - IntMax - 1 ELSE a - b

\* SkipLast(count) &&: return Take(static_cast<int>(Count()) - count);
\* TakeLast(count) &&: return Skip(static_cast<int>(Count()) - count);
\* inside the member *this is an lvalue, so Count and Take / Skip are the const & forms.
LastOpCounted(w1, inner, n, c, k, u) ==
    IF w1.crashed THEN w1
    ELSE IF Overflows(Size(w1, c), n) /\ u = "trap" THEN Crash(w1)
    ELSE Generator(Flush(w1, c, u), inner, Sub32(Size(w1, c), n), c, k, u)

LastOp(w, inner, n, c, k, u) == LastOpCounted(Flush(w, c, u), inner, n, c, k, u)

\* An operator called on the Enumerable with Controller c; the const & form
\* calls controller_.Flush() and then the && form.
OperatorRvalue(w1, kind, n, c, k, u) ==
    IF w1.crashed THEN w1
    ELSE CASE kind = "SkipLast" -> LastOp(w1, "Take", n, c, k, u)
           [] kind = "TakeLast" -> LastOp(w1, "Skip", n, c, k, u)
           [] OTHER -> Generator(w1, kind, n, c, k, u)

Operator(w, kind, n, c, k, access, u) ==
    OperatorRvalue(IF access = "stable" THEN Flush(w, c, u) ELSE w, kind, n, c, k, u)

\* get_return_object of a generator: the new State k with the frame at its entry,
\* i = std::move(*this).begin() on the Enumerable with Controller c
Framed(w, kind, n, c, k) ==
    [w EXCEPT !.cells[k] = [FreeCell EXCEPT !.tag = "Coroutine",
                                            !.frame = NewFrame(kind, n, IteratorCtor(w, c))]]

\* Append(element) && / Prepend(element) && as State k, run to the first co_yield
AddGenerator(w, kind, element, c, k, u) ==
    IF w.crashed THEN w
    ELSE IF kind = "Append" THEN AppendTest(Framed(w, kind, element, c, k), k, u)
    ELSE PrependStart(Framed(w, kind, element, c, k), k)

AddOperatorNoFlush(w, kind, element, c, k, access, u) ==
    AddGenerator(w, kind, element, c, k, u)

\* the const & form: controller_.Flush(), then the && form
AddOperator(w, kind, element, c, k, access, u) ==
    AddGenerator(IF access = "stable" THEN Flush(w, c, u) ELSE w, kind, element, c, k, u)

\* Select(selector) && / Where(predicate) && as State k with a callback that throws
\* on the element bad, run to the first co_yield
ThrowingGenerator(w, kind, bad, c, k, u) ==
    IF w.crashed THEN w
    ELSE Start([Framed(w, kind, 0, c, k) EXCEPT !.cells[k].frame.throws = bad], k, u)

\* the const & form: controller_.Flush(), then the && form
ThrowingOperator(w, kind, bad, c, k, access, u) ==
    ThrowingGenerator(IF access = "stable" THEN Flush(w, c, u) ELSE w, kind, bad, c, k, u)

\* the memory once the caller has caught the exception
Landed(w) == [w EXCEPT !.crashed = FALSE, !.thrown = 0]

\* Where(predicate) && as State k, run to the first co_yield
WherePredicate(w, p, c, k, u) ==
    IF w.crashed THEN w
    ELSE WhereScan([Framed(w, "Where", 0, c, k) EXCEPT !.cells[k].frame.pred = p], k, u)

SingleSecondIgnored(n, value, d) == [w |-> n.w, value |-> value]

\* Single: ++i; if (i != j) return defaultValue; return value;  (n is what ++i returns)
SingleSecond(n, value, d) ==
    [w |-> n.w, value |-> IF ~n.w.crashed /\ NotEnd(n.w, n.it) THEN d ELSE value]

\* Single: if (i == j) return defaultValue; auto value = *i;
SingleFirst(w, it, d, u) ==
    IF w.crashed \/ ~NotEnd(w, it) THEN [w |-> w, value |-> d]
    ELSE SingleSecond(ItNext(w, it, u), ItValue(w, it), d)

\* Single: i = std::move(*this).Where(predicate).begin(), the Where generator being
\* State k of memory w
SingleOn(w, k, d, u) == SingleFirst(w, IteratorCtor(w, k), d, u)

\* Single(defaultValue, predicate) &&
SingleRvalue(w, p, d, c, k, u) == SingleOn(WherePredicate(w, p, c, k, u), k, d, u)

\* Single(defaultValue, predicate) const &: controller_.Flush(), then the && form
Single(w, p, d, c, k, access, u) ==
    SingleRvalue(IF access = "stable" THEN Flush(w, c, u) ELSE w, p, d, c, k, u)

\* ElementAt: for (; (index > 0) && (i != j); --index, ++i) {}
RECURSIVE ElementAtLoop(_, _, _, _)
ElementAtStep(n, index, u) == ElementAtLoop(n.w, n.it, index, u)

ElementAtLoop(w, it, index, u) ==
    IF w.crashed \/ ~(index > 0 /\ NotEnd(w, it)) THEN [w |-> w, it |-> it]
    ELSE ElementAtStep(ItNext(w, it, u), index - 1, u)

\* ElementAt: if (i == j) return defaultValue; return *i;  (l is what the loop leaves)
ElementAtEnd(l, d) ==
    [w |-> l.w, value |-> IF l.w.crashed \/ ~NotEnd(l.w, l.it) THEN d
                          ELSE ItValue(l.w, l.it)]

\* ElementAt(index, defaultValue) &&
ElementAtRvalue(w, index, d, c, u) ==
    ElementAtEnd(ElementAtLoop(w, IteratorCtor(w, c), index, u), d)

\* ElementAt(index, defaultValue) const &: controller_.Flush(), then the && form
ElementAt(w, index, d, c, access, u) ==
    ElementAtRvalue(IF access = "stable" THEN Flush(w, c, u) ELSE w, index, d, c, u)

\* Last: for (i = begin(); i != j; ++i) { auto&& source = *i;
\*                                         if (predicate(source)) pval = &source; }
\* &source is where *i refers to: the element of the vector for a ContainerIterator,
\* promise_type::value_ of the source's frame for a CoroutineIterator; pval is kept
\* as the iterator at the time, NoIt standing for nullptr.
RECURSIVE LastLoop(_, _, _, _, _)
LastStep(n, p, pval, u) == LastLoop(n.w, n.it, p, pval, u)

LastLoop(w, it, p, pval, u) ==
    IF w.crashed \/ ~NotEnd(w, it) THEN [w |-> w, pval |-> pval]
    ELSE LastStep(ItNext(w, it, u), p, IF Holds(p, ItValue(w, it)) THEN it ELSE pval, u)

\* Last: if (!pval) return defaultValue; return *pval;  (l is what the loop leaves)
LastEnd(l, d) ==
    [w |-> l.w, value |-> IF l.w.crashed \/ l.pval.impl = "null" THEN d
                          ELSE ItValue(l.w, l.pval)]

\* Last(predicate, defaultValue) &&
LastRvalue(w, p, d, c, u) == LastEnd(LastLoop(w, IteratorCtor(w, c), p, NoIt, u), d)

\* Last(predicate, defaultValue) const &: controller_.Flush(), then the && form
Last(w, p, d, c, access, u) ==
    LastRvalue(IF access = "stable" THEN Flush(w, c, u) ELSE w, p, d, c, u)

\* get_return_object of a set, grouping or ordering operator with arguments q: the
\* new State k with the frame at its entry
NewQuery(w, q, k) ==
    [w EXCEPT !.cells[k] = [FreeCell EXCEPT !.tag = "Coroutine",
                                            !.frame = [NewFrame(q.op, 0, NoIt) EXCEPT !.q = q]]]

\* i = (the Enumerable with Controller c).begin() &&, and the body of frame k run to
\* its first co_yield
QueryStart(w, k, c, u) ==
    IF w.crashed THEN w
    ELSE StartQuery([w EXCEPT !.cells[k].frame.it = IteratorCtor(w, c)], k, u)

\* Distinct(), Except(other), Union(other), GroupBy(...), ...: if constexpr on
\* is_default_hashable_v, else is_default_lessable_v, else is_default_equalable_v of
\* the element (key) type picks the Hash, the Less or the Equal variant.
DefaultStrategy(hashable, lessable, equalable) ==
    CASE hashable -> "Hash"
      [] lessable -> "Less"
      [] equalable -> "Equal"
      [] OTHER -> "none"

\* The && form of a set, grouping or ordering operator with arguments q on the
\* Enumerable with Controller c, as State k.  Distinct, Union (Hash, Less), GroupBy,
\* GroupJoin, OrderBy and Join read *this: i = std::move(*this).begin().  Except,
\* Intersect and UnionEqual read a temporary: i = std::move(*this).DistinctX().begin(), a generator
\* with a State t of its own.
QueryGenerator(w, q, c, k, u) ==
    LET viaDistinct == q.op \in {"Except", "Intersect"}
                           \/ (q.op = "Union" /\ q.strategy = "Equal")
        t == Alloc(NewQuery(w, q, k))
    IN  QueryStart(IF viaDistinct
                   THEN QueryStart(NewQuery(NewQuery(w, q, k), [q EXCEPT !.op = "Distinct"], t),
                                   t, c, u)
                   ELSE NewQuery(w, q, k),
                   k, IF viaDistinct THEN t ELSE c, u)

\* The const & form: controller_.Flush(), then the && form.
QueryOperator(w, q, c, k, access, u) ==
    QueryGenerator(IF access = "stable" THEN Flush(w, c, u) ELSE w, q, c, k, u)

BeginFlushes(w, c) ==
    LET w1 == Flush(w, c, "stale")
    IN  [w |-> w1, it |-> IteratorCtor(w1, c)]

\* Enumerable<T>::begin() &&
Begin(w, c) == [w |-> w, it |-> IteratorCtor(w, c)]

BeginConstNoFlush(w, c, u) == Begin(w, c)

\* Enumerable<T>::begin() const &: controller_.Flush(), then begin() &&
BeginConst(w, c, u) == Begin(Flush(w, c, u), c)

CopyControllerDeep(w, c, u) ==
    IF c = 0 \/ ~HasFree(w) THEN [w |-> w, ctrl |-> 0]
    ELSE LET k == Alloc(w)
             d == IF IsCoroutine(w, c) THEN Drain(w, c, <<>>, u)
                  ELSE [w |-> w, out |-> w.cells[c].container]
         IN  [w |-> IF d.w.crashed THEN d.w
                    ELSE [d.w EXCEPT !.cells[k] =
                              [FreeCell EXCEPT !.tag = "Container", !.container = d.out,
                                               !.orig = w.cells[c].orig]],
              ctrl |-> k]

\* Enumerable<T>::operator=(const Enumerable& rhs): controller_ = rhs.controller_;
\* controller_.Flush(); if (!controller_.IsContainer()) controller_.Reset();
\* The memory afterwards and the new controller_ of *this.
CopyController(w, c, u) ==
    LET w1 == Flush(w, c, u)
    IN  [w |-> w1, ctrl |-> IF IsContainer(w1, c) THEN c ELSE 0]

\* iterator::operator=(const iterator& rhs): the controller is copied and flushed,
\* the copy is a ContainerIterator at the beginning (or the end() sentinel).
CopyIterator(w, it, u) ==
    LET k == it.ctrl
        w1 == Flush(w, k, u)
    IN  [w |-> w1,
         it |-> IF IsContainer(w1, k)
                THEN [ctrl |-> k, impl |-> "ct", h |-> 0, pos |-> 0]
                ELSE NoIt]

\* for (; i != j; ++i) collect *i
RECURSIVE Traverse(_, _, _, _)
Traverse(w, it, acc, u) ==
    IF w.crashed \/ ~NotEnd(w, it) THEN [w |-> w, it |-> it, out |-> acc]
    ELSE LET n == ItNext(w, it, u)
         IN  Traverse(n.w, n.it, Append(acc, ItValue(w, it)), u)

\* Contains(value) &&: for (; i != j; ++i) if (*i == value) return true;
RECURSIVE Find(_, _, _, _)
Find(w, it, v, u) ==
    IF w.crashed \/ ~NotEnd(w, it) \/ ItValue(w, it) = v THEN w
    ELSE LET n == ItNext(w, it, u)
         IN  Find(n.w, n.it, v, u)

-----------------------------------------------------------------------------------------------------------------------------------------------------
(* The program: a source sequence a, a second Enumerable b, iterators i, j *)

CoreSeqs == {"a", "b"}

\* the copies and moves of the program: b = a, a = b, b = std::move(a), a = std::move(b)
CopyPairs == {<<"b", "a">>, <<"a", "b">>}
MovePairs == {<<"b", "a">>, <<"a", "b">>}

EmptyHeap == [cells |-> [k \in StateIds |-> FreeCell], crashed |-> FALSE, thrown |-> 0]

\* what Select(Sel) and Where(Pred) yield over xs
MapSel(xs) == [x \in 1..Len(xs) |-> Sel(xs[x])]

Filter(xs) == SelectSeq(xs, Pred)

WithOrig(w, k, xs) == [w EXCEPT !.cells[k].orig = xs]

\* The sources of the program, with the State a refers to:
\*   Enumerable<int>::Range(1, c)                      a generator
\*   Enumerable{1, .., c}                              a Container
\*   Enumerable{1, .., c}.Select(Sel) / .Where(Pred)   a generator over a Container
\*   Enumerable<int>::Range(1, c).Select(Sel) / .Where(Pred)   a generator over a generator
Sources ==
    {[w |-> NewRange(EmptyHeap, 1, c), a |-> 1] : c \in 0..MaxCount}
    \cup {[w |-> NewContainer(EmptyHeap, 1, Iota(c)), a |-> 1] : c \in 0..MaxCount}
    \cup {[w |-> WithOrig(Generator(NewContainer(EmptyHeap, 1, Iota(c)), "Select", 0, 1, 2, "stale"),
                          2, MapSel(Iota(c))), a |-> 2] : c \in 0..MaxCount}
    \cup {[w |-> WithOrig(Generator(NewRange(EmptyHeap, 1, c), "Where", 0, 1, 2, "stale"),
                          2, Filter(Iota(c))), a |-> 2] : c \in 0..MaxCount}

Idle ==
    /\ scn = [family |-> "none", n |-> 0, count |-> 0, backing |-> "none", access |-> "none"]
    /\ pc = "main"
    /\ out1 = <<>>
    /\ out2 = <<>>

NoLogs ==
    /\ lastStable = [k \in StateIds |-> NoRead]
    /\ lastFinal = [k \in StateIds |-> NoRead]
    /\ stables = [k \in StateIds |-> 0]
    /\ finals = [k \in StateIds |-> 0]

Init ==
    /\ \E src \in Sources :
          /\ seqs = [s \in SeqIds |-> IF s = "a" THEN src.a ELSE 0]
          /\ heap = Collect(src.w, seqs, [c \in ItIds |-> NoIt])
    /\ its = [c \in ItIds |-> NoIt]
    /\ NoLogs
    /\ Idle

\* The end of an operation: when the program trapped nothing else is kept;
\* otherwise States nobody refers to any more are released.
Commit(w, sq, itr) ==
    /\ heap' = IF w.crashed THEN Crash(heap) ELSE Collect(w, sq, itr)
    /\ seqs' = IF w.crashed THEN seqs ELSE sq
    /\ its' = IF w.crashed THEN its ELSE itr

\* Enumerable& operator=(const Enumerable& rhs), Enumerable(const Enumerable&)
CopyAssign(d, s) ==
    /\ ~heap.crashed /\ d # s
    /\ \E u \in UB :
          LET n == CopyController(heap, seqs[s], u)
          IN  Commit(n.w, [seqs EXCEPT ![d] = n.ctrl], its)
    /\ UNCHANGED <<lastStable, lastFinal, stables, finals, scn, pc, out1, out2>>

\* Enumerable& operator=(Enumerable&&) = default
MoveAssign(d, s) ==
    /\ ~heap.crashed /\ d # s
    /\ Commit(heap, [seqs EXCEPT ![d] = seqs[s], ![s] = 0], its)
    /\ UNCHANGED <<lastStable, lastFinal, stables, finals, scn, pc, out1, out2>>

\* it = std::move(s).begin()
BeginFinal(c, s) ==
    /\ ~heap.crashed
    /\ LET b == Begin(heap, seqs[s])
       IN  Commit(b.w, seqs, [its EXCEPT ![c] = b.it])
    /\ UNCHANGED <<lastStable, lastFinal, stables, finals, scn, pc, out1, out2>>

\* it = s.begin()   (begin() const &)
BeginStable(c, s) ==
    /\ ~heap.crashed
    /\ \E u \in UB :
          LET b == BeginConst(heap, seqs[s], u)
          IN  Commit(b.w, seqs, [its EXCEPT ![c] = b.it])
    /\ UNCHANGED <<lastStable, lastFinal, stables, finals, scn, pc, out1, out2>>

\* if (it != end()) ++it;
Advance(c) ==
    /\ ~heap.crashed
    /\ its[c].impl # "null"
    /\ \E u \in UB :
          IF Dangling(heap, its[c])
          THEN u = "trap" /\ Commit(Crash(heap), seqs, its)
          ELSE /\ NotEnd(heap, its[c])
               /\ LET n == ItNext(heap, its[c], u)
                  IN  Commit(n.w, seqs, [its EXCEPT ![c] = n.it])
    /\ UNCHANGED <<lastStable, lastFinal, stables, finals, scn, pc, out1, out2>>

\* iterator& iterator::operator=(const iterator& rhs)
IterCopy(c, d) ==
    /\ ~heap.crashed /\ c # d
    /\ \E u \in UB :
          LET n == CopyIterator(heap, its[d], u)
          IN  Commit(n.w, seqs, [its EXCEPT ![c] = n.it])
    /\ UNCHANGED <<lastStable, lastFinal, stables, finals, scn, pc, out1, out2>>

\* for (auto&& x : s)   on an lvalue: begin() const & up to end()
StableTraverse(s) ==
    /\ ~heap.crashed
    /\ \E u \in UB :
          LET c == seqs[s]
              b == BeginConst(heap, c, u)
              t == Traverse(b.w, b.it, <<>>, u)
              ok == c # 0 /\ ~t.w.crashed
          IN  /\ Commit(t.w, seqs, its)
              /\ lastStable' = IF ok THEN [lastStable EXCEPT ![c] = t.out] ELSE lastStable
              /\ stables' = IF ok THEN [stables EXCEPT ![c] = Min(@ + 1, 2)] ELSE stables
    /\ UNCHANGED <<lastFinal, finals, scn, pc, out1, out2>>

\* for (auto i = std::move(s).begin(), j = s.end(); i != j; ++i) collect *i
FinalTraverse(s) ==
    /\ ~heap.crashed
    /\ \E u \in UB :
          LET c == seqs[s]
              b == Begin(heap, c)
              t == Traverse(b.w, b.it, <<>>, u)
              w1 == IF IsCoroutine(heap, c) THEN Exhausted(t.w, c) ELSE t.w
              ok == c # 0 /\ ~t.w.crashed
          IN  /\ Commit(w1, seqs, its)
              /\ lastFinal' = IF ok THEN [lastFinal EXCEPT ![c] = t.out] ELSE lastFinal
              /\ finals' = IF ok THEN [finals EXCEPT ![c] = Min(@ + 1, 2)] ELSE finals
    /\ UNCHANGED <<lastStable, stables, scn, pc, out1, out2>>

\* s.Count()   (Count() const &)
CountStable(s) ==
    /\ ~heap.crashed
    /\ \E u \in UB : Commit(Flush(heap, seqs[s], u), seqs, its)
    /\ UNCHANGED <<lastStable, lastFinal, stables, finals, scn, pc, out1, out2>>

\* std::move(s).Contains(v)
ContainsFinal(s, v) ==
    /\ ~heap.crashed
    /\ \E u \in UB :
          LET b == Begin(heap, seqs[s])
          IN  Commit(Find(b.w, b.it, v, u), seqs, its)
    /\ UNCHANGED <<lastStable, lastFinal, stables, finals, scn, pc, out1, out2>>

Next ==
    \/ \E p \in CopyPairs : CopyAssign(p[1], p[2])
    \/ \E p \in MovePairs : MoveAssign(p[1], p[2])
    \/ \E s \in CoreSeqs : BeginFinal("i", s)
    \/ \E s \in CoreSeqs : BeginStable("i", s)
    \/ \E c \in ItIds : Advance(c)
    \/ IterCopy("j", "i")
    \/ \E s \in CoreSeqs : StableTraverse(s)
    \/ \E s \in CoreSeqs : FinalTraverse(s)
    \/ \E s \in CoreSeqs : CountStable(s)
    \/ \E s \in CoreSeqs, v \in {2, 20} : ContainsFinal(s, v)

Spec == Init /\ [][Next]_vars

-----------------------------------------------------------------------------
(* Properties of the access discipline *)

Cell(k) == heap.cells[k]

\* C1 - stable-access repeatability: once a State has been traversed through
\* begin() const &, every later stable traversal of it yields the same elements
\* in the same order, whatever operations run in between (other stable
\* operations, cursor advances, copies).
StableRepeats ==
    [][\A k \in StateIds : stables[k] >= 1 => lastStable'[k] = lastStable[k]]_vars

\* two stable traversals of a generator that was partly consumed before
StableRepeatsSeen ==
    \E k \in StateIds :
        /\ stables[k] = 2
        /\ Cell(k).flushes = 1
        /\ Cell(k).consumed # <<>>
        /\ lastStable[k] # <<>>

\* C2 as stated - a stable read returns every element of the sequence, also
\* after final-access consumption.
StableReadsWhole ==
    \A k \in StateIds : stables[k] >= 1 => lastStable[k] = Cell(k).orig

\* C2 amended - a State tagged Coroutine always has a live frame, a stable read
\* leaves the State a Container, and it returns the elements from the generator's
\* position at the Flush on: the elements consumed through cursors followed by
\* the elements read are the whole sequence.
StableReadsRemainder ==
    \A k \in StateIds :
        /\ Cell(k).tag = "Coroutine" => Cell(k).destroyed = 0
        /\ stables[k] >= 1 =>
               /\ Cell(k).tag \in {"Container", "Released"}
               /\ Cell(k).consumed \o lastStable[k] = Cell(k).orig

\* a stable read after a cursor consumed part of the generator
StableReadsRemainderSeen ==
    \E k \in StateIds :
        /\ stables[k] >= 1
        /\ Cell(k).destroyed = 1
        /\ Cell(k).consumed # <<>>
        /\ lastStable[k] # <<>>
        /\ lastStable[k] # Cell(k).orig

\* C3 - single consumption: after a complete traversal of a generator State
\* through begin() && the generator is at its end, and every later final-access
\* traversal of that State yields no element.
SingleConsumption ==
    \A k \in StateIds :
        Cell(k).exhausted =>
            /\ Cell(k).tag = "Coroutine" => Cell(k).frame.done
            /\ Cell(k).tag = "Container" => Cell(k).container = <<>>
            /\ finals[k] = 2 => lastFinal[k] = <<>>

\* a non-empty generator traversed twice through begin() &&
SingleConsumptionSeen ==
    \E k \in StateIds :
        /\ Cell(k).exhausted
        /\ finals[k] = 2
        /\ Cell(k).orig # <<>>
        /\ Cell(k).tag = "Coroutine"
        /\ lastFinal[k] = <<>>

\* C4 - state-tag monotonicity: a Container State stays a Container with the same
\* elements until it is released, no State becomes a Coroutine, a flush counts
\* only on a Coroutine State, and a State is collapsed at most once.
TagMonotone ==
    [][\A k \in StateIds :
          /\ Cell(k).tag = "Container" =>
                 /\ heap'.cells[k].tag \in {"Container", "Released"}
                 /\ heap'.cells[k].tag = "Container" =>
                        heap'.cells[k].container = Cell(k).container
          /\ heap'.cells[k].tag = "Coroutine" => Cell(k).tag = "Coroutine"
          /\ Cell(k).tag # "Coroutine" => heap'.cells[k].flushes = Cell(k).flushes
          /\ heap'.cells[k].flushes <= 1]_vars

\* a collapsed generator that went through further stable operations
TagMonotoneSeen ==
    \E k \in StateIds :
        /\ Cell(k).tag = "Container"
        /\ Cell(k).flushes = 1
        /\ Cell(k).container # <<>>
        /\ stables[k] = 2
        /\ seqs["a"] = k /\ seqs["b"] = k

\* C5 - element conservation of Flush: the Container a generator collapsed into
\* holds the generator's element at the Flush and all it yields afterwards: the
\* elements consumed through cursors followed by the Container are the whole
\* sequence, and the Container is the whole sequence when nothing was consumed.
FlushConserves ==
    \A k \in StateIds :
        Cell(k).flushes >= 1 /\ Cell(k).tag = "Container" =>
            /\ Cell(k).consumed \o Cell(k).container = Cell(k).orig
            /\ Cell(k).consumed = <<>> => Cell(k).container = Cell(k).orig

\* a generator collapsed after a cursor consumed part of it
FlushConservesSeen ==
    \E k \in StateIds :
        /\ Cell(k).flushes = 1
        /\ Cell(k).tag = "Container"
        /\ Len(Cell(k).consumed) >= 1
        /\ Len(Cell(k).container) >= 2

-----------------------------------------------------------------------------
(* Operator runs: an operator applied to a source, its result read, then   *)
(* the partner operator applied to the same source (stable access) or to a *)
(* freshly constructed equal source (final access).                        *)

Families == {"TakeSkip", "Last", "Map"}

\* the first and the second operator of a run
FirstOp(f) == CASE f = "TakeSkip" -> "Take" [] f = "Last" -> "SkipLast" [] OTHER -> "Select"

SecondOp(f) == CASE f = "TakeSkip" -> "Skip" [] f = "Last" -> "TakeLast" [] OTHER -> "Where"

\* the int arguments tried: around the source's length, and the ends of int
Counts == (-1 .. MaxCount + 1) \cup {IntMin, IntMax}

Backings == {"Range", "Container"}

Accesses == {"final", "stable"}

\* Enumerable<int>::Range(1, c) or Enumerable{1, .., c} as State k
NewSource(w, k, backing, c) ==
    IF backing = "Range" THEN NewRange(w, k, c) ELSE NewContainer(w, k, Iota(c))

InitOps ==
    /\ \E f \in Families, n \in Counts, c \in 0 .. MaxCount, b \in Backings, acc \in Accesses :
          /\ scn = [family |-> f, n |-> n, count |-> c, backing |-> b, access |-> acc]
          /\ heap = NewSource(EmptyHeap, 1, b, c)
    /\ seqs = [s \in SeqIds |-> IF s = "a" THEN 1 ELSE 0]
    /\ its = [c \in ItIds |-> NoIt]
    /\ NoLogs
    /\ pc = "start"
    /\ out1 = <<>>
    /\ out2 = <<>>

\* r = a.Op(n) (stable access) or r = std::move(a).Op(n) (final access)
Apply1 ==
    /\ pc = "start" /\ ~heap.crashed
    /\ \E u \in UB :
          LET k == Alloc(heap)
              w1 == Operator(heap, FirstOp(scn.family), scn.n, seqs["a"], k, scn.access, u)
          IN  Commit(w1, [seqs EXCEPT !["r"] = k], its)
    /\ pc' = IF heap'.crashed THEN pc ELSE "applied1"
    /\ UNCHANGED <<lastStable, lastFinal, stables, finals, scn, out1, out2>>

\* one pull of the result through a cursor: i = std::move(r).begin(), then
\* x = *i; ++i; while i != end()
Pull ==
    /\ pc = "applied1" /\ ~heap.crashed /\ scn.access = "final"
    /\ \E u \in UB :
          IF its["i"].impl = "null"
          THEN /\ out1 = <<>>
               /\ LET b == Begin(heap, seqs["r"])
                  IN  Commit(b.w, seqs, [its EXCEPT !["i"] = b.it])
               /\ out1' = out1
          ELSE /\ NotEnd(heap, its["i"])
               /\ LET n == ItNext(heap, its["i"], u)
                  IN  /\ Commit(n.w, seqs, [its EXCEPT !["i"] = n.it])
                      /\ out1' = IF n.w.crashed THEN out1
                                 ELSE Append(out1, ItValue(heap, its["i"]))
    /\ UNCHANGED <<lastStable, lastFinal, stables, finals, scn, pc, out2>>

\* The elements of Enumerable value s from cursor it on (from its beginning when
\* there is no cursor yet): begin() && for final access, begin() const & for stable.
ReadFrom(w, c, it, acc, access, u) ==
    IF it.impl # "null" THEN Traverse(w, it, acc, u)
    ELSE LET b == IF access = "final" THEN Begin(w, c) ELSE BeginConst(w, c, u)
         IN  Traverse(b.w, b.it, acc, u)

\* the rest of the first result is read, and the result goes out of scope
Read1 ==
    /\ pc = "applied1" /\ ~heap.crashed
    /\ \E u \in UB :
          LET t == ReadFrom(heap, seqs["r"], its["i"], out1, scn.access, u)
          IN  /\ Commit(t.w, [seqs EXCEPT !["r"] = 0], [its EXCEPT !["i"] = NoIt])
              /\ out1' = IF t.w.crashed THEN out1 ELSE t.out
    /\ pc' = IF heap'.crashed THEN pc ELSE "read1"
    /\ UNCHANGED <<lastStable, lastFinal, stables, finals, scn, out2>>

\* the partner operator: on a itself (stable access), on a newly constructed equal
\* source (final access consumed the first one)
Apply2 ==
    /\ pc = "read1" /\ ~heap.crashed
    /\ \E u \in UB :
          LET fresh == scn.access = "final"
              ka == IF fresh THEN Alloc(heap) ELSE seqs["a"]
              w0 == IF fresh THEN NewSource(heap, ka, scn.backing, scn.count) ELSE heap
              k == Alloc(w0)
              w1 == Operator(w0, SecondOp(scn.family), scn.n, ka, k, scn.access, u)
          IN  Commit(w1, [seqs EXCEPT !["a"] = ka, !["r"] = k], its)
    /\ pc' = IF heap'.crashed THEN pc ELSE "applied2"
    /\ UNCHANGED <<lastStable, lastFinal, stables, finals, scn, out1, out2>>

\* the second result is read
Read2 ==
    /\ pc = "applied2" /\ ~heap.crashed
    /\ \E u \in UB :
          LET t == ReadFrom(heap, seqs["r"], NoIt, <<>>, scn.access, u)
          IN  /\ Commit(t.w, seqs, its)
              /\ out2' = IF t.w.crashed THEN out2 ELSE t.out
    /\ pc' = IF heap'.crashed THEN pc ELSE "read2"
    /\ UNCHANGED <<lastStable, lastFinal, stables, finals, scn, out1>>

NextOps ==
    \/ Apply1
    \/ Pull
    \/ Read1
    \/ Apply2
    \/ Read2

SpecOps == InitOps /\ [][NextOps]_vars

-----------------------------------------------------------------------------
(* Query runs: a set, grouping or ordering operator called on a sequence a *)
(* built from an initializer list, its result r enumerated; Distinct is    *)
(* then called on the result and enumerated once more.                     *)

Ops == {"Distinct", "Union", "Except", "Intersect", "GroupBy", "GroupJoin", "Join",
        "OrderBy"}

Binary == {"Union", "Except", "Intersect", "GroupJoin", "Join"}

Keyed == {"GroupBy", "GroupJoin", "Join", "OrderBy"}

Strategies == {"Hash", "Less", "Equal"}

\* the sequences over Vals of length at most n
SeqsUpTo(n) == UNION {[1 .. m -> Vals] : m \in 0 .. n}

\* the second sequences (other / inner) tried
Others == {<<>>, <<2>>, <<1, 3>>, <<3, 1>>, <<2, 2>>, <<1, 3, 1>>, <<2, 1, 3>>, <<3, 2, 1>>}

\* the order a build is run with when no container of the call depends on it
AnyOrder == [i \in 1 .. Cardinality(Vals) |-> i]

\* The calls tried: each operator with each strategy; a custom TEqual and keys other
\* than the parity class with the Equal strategy; OrderBy and OrderByDescending.
Queries ==
    {q \in [op : Ops, strategy : Strategies \cup {"none"},
            cmp : {"hash", "less", "greater", "equal_to", "same_parity"},
            keysel : {"none", "parity", "identity"}, other : Others, order : Orders] :
        /\ (q.op = "OrderBy") = (q.strategy = "none")
        /\ CASE q.strategy = "Hash" -> q.cmp = "hash"
              [] q.strategy = "Less" -> q.cmp = "less"
              [] q.strategy = "Equal" -> q.cmp \in {"equal_to", "same_parity"}
              [] OTHER -> q.cmp \in {"less", "greater"}
        /\ IF q.op \in Keyed
           THEN q.keysel = "parity" \/ (q.keysel = "identity" /\ q.strategy = "Equal")
           ELSE q.keysel = "none"
        /\ q.op \notin Binary => q.other = <<>>
        /\ q.strategy \in {"Less", "Equal"} => q.order = AnyOrder}

InitQuery ==
    /\ \E q \in Queries, xs \in SeqsUpTo(MaxCount) :
          /\ scn = [family |-> q.op, q |-> q, xs |-> xs]
          /\ heap = NewContainer(EmptyHeap, 1, xs)
    /\ seqs = [s \in SeqIds |-> IF s = "a" THEN 1 ELSE 0]
    /\ its = [c \in ItIds |-> NoIt]
    /\ NoLogs
    /\ pc = "start"
    /\ out1 = <<>>
    /\ out2 = <<>>

\* r = a.Op(...)
Call ==
    /\ pc = "start" /\ ~heap.crashed
    /\ \E u \in UB :
          LET k == Alloc(heap)
              w1 == QueryOperator(heap, scn.q, seqs["a"], k, "stable", u)
          IN  Commit(w1, [seqs EXCEPT !["r"] = k], its)
    /\ pc' = IF heap'.crashed THEN pc ELSE "called"
    /\ UNCHANGED <<lastStable, lastFinal, stables, finals, scn, out1, out2>>

\* for (auto&& x : r) collect x
Enumerate ==
    /\ pc = "called" /\ ~heap.crashed
    /\ \E u \in UB :
          LET t == ReadFrom(heap, seqs["r"], NoIt, <<>>, "stable", u)
          IN  /\ Commit(t.w, seqs, its)
              /\ out1' = IF t.w.crashed THEN out1 ELSE t.out
    /\ pc' = IF heap'.crashed THEN pc ELSE "enumerated"
    /\ UNCHANGED <<lastStable, lastFinal, stables, finals, scn, out2>>

\* d = r.Distinct...() with the strategy of the first call, r being a Distinct result
CallAgain ==
    /\ pc = "enumerated" /\ ~heap.crashed /\ scn.q.op = "Distinct"
    /\ \E u \in UB :
          LET k == Alloc(heap)
              w1 == QueryOperator(heap, scn.q, seqs["r"], k, "stable", u)
          IN  Commit(w1, [seqs EXCEPT !["b"] = k], its)
    /\ pc' = IF heap'.crashed THEN pc ELSE "called again"
    /\ UNCHANGED <<lastStable, lastFinal, stables, finals, scn, out1, out2>>

\* for (auto&& x : d) collect x
EnumerateAgain ==
    /\ pc = "called again" /\ ~heap.crashed
    /\ \E u \in UB :
          LET t == ReadFrom(heap, seqs["b"], NoIt, <<>>, "stable", u)
          IN  /\ Commit(t.w, seqs, its)
              /\ out2' = IF t.w.crashed THEN out2 ELSE t.out
    /\ pc' = IF heap'.crashed THEN pc ELSE "enumerated again"
    /\ UNCHANGED <<lastStable, lastFinal, stables, finals, scn, out1>>

NextQuery ==
    \/ Call
    \/ Enumerate
    \/ CallAgain
    \/ EnumerateAgain

SpecQuery == InitQuery /\ [][NextQuery]_vars

-----------------------------------------------------------------------------
(* Auto-strategy runs: Distinct(), Union(other), ... without a strategy    *)
(* suffix, called on a sequence whose element (key) type has any of the    *)
(* three capabilities or none, and the result enumerated.                  *)

\* the operators that select their strategy from the element / key type
Cascaded == {"Distinct", "Union", "Intersect", "Except", "GroupBy", "Join", "GroupJoin"}

\* is_default_hashable_v, is_default_lessable_v, is_default_equalable_v of a type
Capabilities == [hashable : BOOLEAN, lessable : BOOLEAN, equalable : BOOLEAN]

\* std::hash<T>, std::less<T>, std::equal_to<T>: the comparer the cascade passes on
StdComparer(strategy) ==
    CASE strategy = "Hash" -> "hash"
      [] strategy = "Less" -> "less"
      [] OTHER -> "equal_to"

\* the XHash / XLess / XEqual call the auto form of a call with arguments q makes
AutoQuery(q, caps) ==
    LET strategy == DefaultStrategy(caps.hashable, caps.lessable, caps.equalable)
    IN  [q EXCEPT !.strategy = strategy, !.cmp = StdComparer(strategy)]

InitAuto ==
    /\ \E op \in Cascaded, caps \in Capabilities, xs \in SeqsUpTo(MaxCount) :
          /\ scn = [family |-> op, xs |-> xs, caps |-> caps,
                    q |-> [op |-> op, strategy |-> "auto", cmp |-> "default",
                           keysel |-> IF op \in Keyed THEN "parity" ELSE "none",
                           other |-> IF op \in Binary THEN <<1, 3, 1>> ELSE <<>>,
                           order |-> AnyOrder]]
          /\ heap = NewContainer(EmptyHeap, 1, xs)
    /\ seqs = [s \in SeqIds |-> IF s = "a" THEN 1 ELSE 0]
    /\ its = [c \in ItIds |-> NoIt]
    /\ NoLogs
    /\ pc = "start"
    /\ out1 = <<>>
    /\ out2 = <<>>

\* r = a.Op(...): controller_.Flush(), then Op() && with its if constexpr cascade.
\* When no branch is taken the body is empty, the static_assert of the last else
\* being commented out: control flows off the end of a function that returns an
\* Enumerable, which is undefined; the call traps, or the caller goes on with an
\* Enumerable that was never constructed.
CallAuto ==
    /\ pc = "start" /\ ~heap.crashed /\ scn.q.strategy = "auto"
    /\ \E u \in UB :
          LET q == AutoQuery(scn.q, scn.caps)
              k == Alloc(heap)
          IN  IF q.strategy = "none"
              THEN Commit(IF u = "trap" THEN Crash(heap) ELSE Flush(heap, seqs["a"], u),
                          seqs, its)
              ELSE Commit(QueryOperator(heap, q, seqs["a"], k, "stable", u),
                          [seqs EXCEPT !["r"] = k], its)
    /\ pc' = IF heap'.crashed THEN pc ELSE "called"
    /\ UNCHANGED <<lastStable, lastFinal, stables, finals, scn, out1, out2>>

NextAuto ==
    \/ CallAuto
    \/ Enumerate

SpecAuto == InitAuto /\ [][NextAuto]_vars

-----------------------------------------------------------------------------
(* Call runs: Single, ElementAt or Last called on a source a, the value    *)
(* returned kept in out1; or Append / Prepend called on a, the source read *)
(* by stable access before and after the call and the result r read.       *)

Terminals == {"Single", "ElementAt", "Last"}

Adders == {"Append", "Prepend"}

\* the defaultValue of the calls (TestSingle)
DefaultValue == 5566

\* the element added: numbers.Append(5), numbers.Prepend(0)
Added(op) == IF op = "Append" THEN 5 ELSE 0

\* The calls tried: Single and Last with each predicate, ElementAt with each index,
\* Append and Prepend with the result kept or discarded.
CallsTried ==
    {c \in [family : Terminals \cup Adders, p : Preds,
            n : Counts \cup {Added(op) : op \in Adders}, keep : BOOLEAN] :
        /\ c.family # "ElementAt" => c.n = Added(c.family)
        /\ c.family \notin {"Single", "Last"} => c.p = "all"
        /\ c.family \notin Adders => c.keep}

InitCalls ==
    /\ \E t \in CallsTried, c \in 0 .. MaxCount, b \in Backings, acc \in Accesses :
          /\ scn = [family |-> t.family, p |-> t.p, n |-> t.n, keep |-> t.keep,
                    count |-> c, backing |-> b, access |-> acc]
          /\ heap = NewSource(EmptyHeap, 1, b, c)
    /\ seqs = [s \in SeqIds |-> IF s = "a" THEN 1 ELSE 0]
    /\ its = [c \in ItIds |-> NoIt]
    /\ NoLogs
    /\ pc = "start"
    /\ out1 = <<>>
    /\ out2 = <<>>

\* v = a.Single(DefaultValue, p) or v = std::move(a).Single(DefaultValue, p)
CallSingle ==
    /\ pc = "start" /\ ~heap.crashed /\ scn.family = "Single"
    /\ \E u \in UB :
          LET r == Single(heap, scn.p, DefaultValue, seqs["a"], Alloc(heap), scn.access, u)
          IN  /\ Commit(r.w, seqs, its)
              /\ out1' = IF r.w.crashed THEN out1 ELSE <<r.value>>
    /\ pc' = IF heap'.crashed THEN pc ELSE "returned"
    /\ UNCHANGED <<lastStable, lastFinal, stables, finals, scn, out2>>

\* v = a.ElementAt(n, DefaultValue) or v = std::move(a).ElementAt(n, DefaultValue)
CallElementAt ==
    /\ pc = "start" /\ ~heap.crashed /\ scn.family = "ElementAt"
    /\ \E u \in UB :
          LET r == ElementAt(heap, scn.n, DefaultValue, seqs["a"], scn.access, u)
          IN  /\ Commit(r.w, seqs, its)
              /\ out1' = IF r.w.crashed THEN out1 ELSE <<r.value>>
    /\ pc' = IF heap'.crashed THEN pc ELSE "returned"
    /\ UNCHANGED <<lastStable, lastFinal, stables, finals, scn, out2>>

\* v = a.Last(p, DefaultValue) or v = std::move(a).Last(p, DefaultValue)
CallLast ==
    /\ pc = "start" /\ ~heap.crashed /\ scn.family = "Last"
    /\ \E u \in UB :
          LET r == Last(heap, scn.p, DefaultValue, seqs["a"], scn.access, u)
          IN  /\ Commit(r.w, seqs, its)
              /\ out1' = IF r.w.crashed THEN out1 ELSE <<r.value>>
    /\ pc' = IF heap'.crashed THEN pc ELSE "returned"
    /\ UNCHANGED <<lastStable, lastFinal, stables, finals, scn, out2>>

\* for (auto&& x : a) collect x, before the call
ReadBefore ==
    /\ pc = "start" /\ ~heap.crashed /\ scn.family \in Adders
    /\ \E u \in UB :
          LET t == ReadFrom(heap, seqs["a"], NoIt, <<>>, "stable", u)
          IN  /\ Commit(t.w, seqs, its)
              /\ out1' = IF t.w.crashed THEN out1 ELSE t.out
    /\ pc' = IF heap'.crashed THEN pc ELSE "read before"
    /\ UNCHANGED <<lastStable, lastFinal, stables, finals, scn, out2>>

\* r = a.Append(5) / a.Prepend(0) (stable access), r = std::move(a).Append(5) / ...
\* (final access); or the same call as a statement, its result discarded
CallAdd ==
    /\ pc \in {"start", "read before"} /\ ~heap.crashed /\ scn.family \in Adders
    /\ \E u \in UB :
          LET k == Alloc(heap)
              w1 == AddOperator(heap, scn.family, scn.n, seqs["a"], k, scn.access, u)
          IN  Commit(w1, [seqs EXCEPT !["r"] = IF scn.keep THEN k ELSE 0], its)
    /\ pc' = IF heap'.crashed THEN pc ELSE "added"
    /\ UNCHANGED <<lastStable, lastFinal, stables, finals, scn, out1, out2>>

\* for (auto&& x : a) collect x, after the call and again after the result was read
ReadSource ==
    /\ pc \in {"added", "read result"} /\ ~heap.crashed
    /\ \E u \in UB :
          LET t == ReadFrom(heap, seqs["a"], NoIt, <<>>, "stable", u)
          IN  /\ Commit(t.w, seqs, its)
              /\ out2' = IF t.w.crashed THEN out2 ELSE t.out
    /\ pc' = IF heap'.crashed THEN pc
             ELSE IF pc = "added" THEN "read source" ELSE "read both"
    /\ UNCHANGED <<lastStable, lastFinal, stables, finals, scn, out1>>

\* for (auto&& x : r) collect x
ReadResult ==
    /\ pc = "read source" /\ ~heap.crashed /\ scn.keep
    /\ \E u \in UB :
          LET t == ReadFrom(heap, seqs["r"], NoIt, <<>>, "stable", u)
          IN  /\ Commit(t.w, seqs, its)
              /\ out1' = IF t.w.crashed THEN out1 ELSE t.out
    /\ pc' = IF heap'.crashed THEN pc ELSE "read result"
    /\ UNCHANGED <<lastStable, lastFinal, stables, finals, scn, out2>>

NextCalls ==
    \/ CallSingle
    \/ CallElementAt
    \/ CallLast
    \/ ReadBefore
    \/ CallAdd
    \/ ReadSource
    \/ ReadResult

SpecCalls == InitCalls /\ [][NextCalls]_vars

-----------------------------------------------------------------------------
(* Throwing runs: Select or Where called on a source a with a callback     *)
(* that throws on one element, every call of the program inside a try      *)
(* block; the result r is read through a cursor, by a stable traversal or  *)
(* by a terminal operator.  out1 holds the elements read, out2 the         *)
(* exception caught.                                                       *)

Throwers == {"Select", "Where"}

InitThrow ==
    /\ \E op \in Throwers, bad \in 0 .. MaxCount, c \in 0 .. MaxCount, b \in Backings,
          acc \in Accesses :
          /\ scn = [family |-> op, bad |-> bad, count |-> c, backing |-> b, access |-> acc]
          /\ heap = NewSource(EmptyHeap, 1, b, c)
    /\ seqs = [s \in SeqIds |-> IF s = "a" THEN 1 ELSE 0]
    /\ its = [c \in ItIds |-> NoIt]
    /\ NoLogs
    /\ pc = "start"
    /\ out1 = <<>>
    /\ out2 = <<>>

\* The end of an operation inside try { } catch: an exception is caught (the objects
\* of the try block being sqc and itc then), a trap ends the program, otherwise the
\* operation has completed.
CommitTry(w, sq, itr, sqc, itc, at, next) ==
    /\ heap' = IF w.thrown # 0 THEN Collect(Landed(w), sqc, itc)
               ELSE IF w.crashed THEN Crash(heap)
               ELSE Collect(w, sq, itr)
    /\ seqs' = IF w.thrown # 0 THEN sqc ELSE IF w.crashed THEN seqs ELSE sq
    /\ its' = IF w.thrown # 0 THEN itc ELSE IF w.crashed THEN its ELSE itr
    /\ out2' = IF w.thrown # 0 THEN <<w.thrown>> ELSE out2
    /\ pc' = IF w.thrown # 0 THEN at ELSE IF w.crashed THEN pc ELSE next

\* r = a.Select(f) / a.Where(f) (stable access), r = std::move(a).Select(f) / ...
CallThrowing ==
    /\ pc = "start" /\ ~heap.crashed
    /\ \E u \in UB :
          LET k == Alloc(heap)
              w1 == ThrowingOperator(heap, scn.family, scn.bad, seqs["a"], k, scn.access, u)
          IN  CommitTry(w1, [seqs EXCEPT !["r"] = k], its, seqs, its,
                        "caught by the call", "called")
    /\ UNCHANGED <<lastStable, lastFinal, stables, finals, scn, out1>>

\* i = std::move(r).begin(); then x = *i; ++i; while i != end()
PullThrowing ==
    /\ pc = "called" /\ ~heap.crashed
    /\ \E u \in UB :
          IF its["i"].impl = "null"
          THEN /\ out1 = <<>>
               /\ LET b == Begin(heap, seqs["r"])
                  IN  CommitTry(b.w, seqs, [its EXCEPT !["i"] = b.it], seqs, its,
                                "caught by the call", IF NotEnd(b.w, b.it) THEN pc ELSE "read")
               /\ out1' = out1
          ELSE /\ NotEnd(heap, its["i"])
               /\ LET n == ItNext(heap, its["i"], u)
                  IN  /\ CommitTry(n.w, seqs, [its EXCEPT !["i"] = n.it], seqs, its,
                                   "caught by the advance",
                                   IF NotEnd(n.w, n.it) THEN pc ELSE "read")
                      /\ out1' = IF n.w.crashed /\ n.w.thrown = 0 THEN out1
                                 ELSE Append(out1, ItValue(heap, its["i"]))
    /\ UNCHANGED <<lastStable, lastFinal, stables, finals, scn>>

\* for (auto&& x : r) collect x: begin() const & flushes r
FlushThrowing ==
    /\ pc = "called" /\ ~heap.crashed /\ its["i"].impl = "null"
    /\ \E u \in UB :
          LET t == ReadFrom(heap, seqs["r"], NoIt, <<>>, "stable", u)
          IN  /\ CommitTry(t.w, seqs, its, seqs, its, "caught by the Flush", "read")
              /\ out1' = IF t.w.crashed THEN out1 ELSE t.out
    /\ UNCHANGED <<lastStable, lastFinal, stables, finals, scn>>

\* std::move(r).Contains(0), 0 being no element of r
TerminalThrowing ==
    /\ pc = "called" /\ ~heap.crashed /\ its["i"].impl = "null"
    /\ \E u \in UB :
          LET b == Begin(heap, seqs["r"])
          IN  CommitTry(Find(b.w, b.it, 0, u), seqs, its, seqs, its,
                        "caught by the terminal operator", "searched")
    /\ UNCHANGED <<lastStable, lastFinal, stables, finals, scn, out1>>

NextThrow ==
    \/ CallThrowing
    \/ PullThrowing
    \/ FlushThrowing
    \/ TerminalThrowing

SpecThrow == InitThrow /\ [][NextThrow]_vars

-----------------------------------------------------------------------------
(* Properties of the operators *)

\* the source of a run, and the clamped count min(max(n, 0), |xs|)
Xs == Iota(scn.count)

Clamp == Min(Max(scn.n, 0), scn.count)

\* a result exists and nothing has been read from it since the last pull
Applied == pc \in {"applied1", "applied2"} /\ ~heap.crashed

\* C7 as stated - laziness: as long as no cursor of the returned Sequence was
\* pulled and nothing ran on it, no callback was invoked and no element was
\* pulled from the upstream.
LazyUntilPulled ==
    Applied /\ Cell(seqs["r"]).resumes = 0 =>
        /\ Cell(seqs["r"]).frame.calls = 0
        /\ Cell(seqs["r"]).frame.pulls = 0

\* C7 amended - the operator's generator runs to its first co_yield at the call
\* and afterwards only when it is pulled: it has yielded at most one element more
\* than it was resumed; Select has invoked the selector once per element yielded
\* (once at the call on a non-empty source) and advanced the upstream once per
\* resume; Take has advanced the upstream once per resume; Skip(n) has advanced it
\* past the skipped elements at the call and then once per resume; Where has
\* invoked the predicate up to its first match at the call.
StartsAtFirstYield ==
    Applied =>
        LET k == seqs["r"]
            f == Cell(k).frame
            rs == Cell(k).resumes
        IN  /\ Cell(k).produced <= rs + 1
            /\ f.kind = "Select" =>
                   /\ f.calls = Cell(k).produced
                   /\ f.pulls = rs
                   /\ rs = 0 => f.calls = Min(1, scn.count)
            /\ f.kind = "Take" => f.pulls = rs
            /\ f.kind = "Skip" /\ scn.family = "TakeSkip" => f.pulls = Clamp + rs
            /\ f.kind = "Where" =>
                   /\ f.calls <= f.pulls + 1
                   /\ rs = 0 => f.calls = Min(2, scn.count) /\ f.pulls = Min(1, scn.count)

\* Select just called on a non-empty source: the selector has run once already
StartsAtFirstYieldSeen ==
    /\ Applied /\ pc = "applied1"
    /\ its["i"].impl = "null"
    /\ Cell(seqs["r"]).frame.kind = "Select"
    /\ Cell(seqs["r"]).resumes = 0
    /\ Cell(seqs["r"]).frame.calls = 1
    /\ scn.backing = "Range" /\ scn.access = "final"

\* C8 - Take short-circuit: after Take(n), n >= 0, over a generator holding more
\* than n elements (final access) was traversed completely, the upstream generator
\* has produced at most n elements (the element Range produces when it is
\* constructed is not counted against Take(0)).
TakeShortCircuit ==
    /\ scn.family = "TakeSkip" /\ scn.backing = "Range" /\ scn.access = "final"
    /\ pc = "read1" /\ ~heap.crashed
    /\ scn.n >= 0 /\ scn.count > scn.n
    => Cell(seqs["a"]).produced <= Max(scn.n, 1)

\* C9 - Take/Skip partition: Take(n) yields the first min(max(n, 0), |xs|) elements
\* of xs, Skip(n) the remaining ones, and the two together are xs.
TakeSkipPartition ==
    scn.family = "TakeSkip" /\ ~heap.crashed =>
        /\ pc \in {"read1", "applied2", "read2"} => out1 = SubSeq(Xs, 1, Clamp)
        /\ pc = "read2" =>
               /\ out2 = SubSeq(Xs, Clamp + 1, scn.count)
               /\ out1 \o out2 = Xs

\* Take(n) and Skip(n) with 0 < n < |xs| over a generator, both read
TakeSkipPartitionSeen ==
    /\ scn.family = "TakeSkip" /\ ~heap.crashed
    /\ pc = "read2"
    /\ scn.backing = "Range" /\ scn.access = "final"
    /\ scn.n > 0 /\ scn.n < scn.count
    /\ out1 # <<>> /\ out2 # <<>>

\* C10 - SkipLast(n) yields the first max(|xs| - n, 0) elements of xs and
\* TakeLast(n) the last min(max(n, 0), |xs|), for every int n, and the source
\* State is a Container once the operator was called.
LastPartition ==
    scn.family = "Last" /\ ~heap.crashed =>
        /\ pc # "start" => IsContainer(heap, seqs["a"])
        /\ pc \in {"read1", "applied2", "read2"} =>
               out1 = SubSeq(Xs, 1, IF scn.n <= 0 THEN scn.count
                                     ELSE Max(scn.count - scn.n, 0))
        /\ pc = "read2" => out2 = SubSeq(Xs, scn.count - Clamp + 1, scn.count)

-----------------------------------------------------------------------------
(* Properties of the set, grouping and ordering operators (SpecQuery) *)

\* the call of the run and its source
Q == scn.q

Src == scn.xs

\* the result of the call has been enumerated
Done(op) == pc \in {"enumerated", "called again", "enumerated again"} /\ Q.op = op

\* the permutations of 1 .. n
Perms(n) == {p \in [1 .. n -> 1 .. n] : \A i, j \in 1 .. n : i # j => p[i] # p[j]}

NoDuplicates(xs) == \A i, j \in DOMAIN xs : i # j => xs[i] # xs[j]

\* C11: OrderBy / OrderByDescending yields a permutation of the source that is sorted
\* by key under the comparer, elements of equivalent keys in their source order.
OrderByStable ==
    Done("OrderBy") =>
        \E p \in Perms(Len(Src)) :
            /\ Len(out1) = Len(Src)
            /\ \A i \in DOMAIN out1 : out1[i] = Src[p[i]]
            /\ \A i, j \in DOMAIN out1 :
                   i < j =>
                       LET ki == KeyOf(Q.keysel, out1[i])
                           kj == KeyOf(Q.keysel, out1[j])
                       IN  /\ ~Less(Q.cmp, kj, ki)
                           /\ Equiv(Q.cmp, ki, kj) => p[i] < p[j]

\* the keys a and b match under the strategy of the call
KeysMatch(a, b) ==
    CASE Q.strategy = "Hash" -> a = b
      [] Q.strategy = "Less" -> ~(a < b) /\ ~(b < a)
      [] OTHER -> Equal(Q.cmp, a, b)

\* the inner elements matching the outer element o, in the order of inner
MatchesOf(o) ==
    SelectSeq(Q.other, LAMBDA e : KeysMatch(KeyOf(Q.keysel, o), KeyOf(Q.keysel, e)))

\* one result per pair: outer elements in source order, their matches in inner order
RECURSIVE JoinPairs(_)
JoinPairs(outer) ==
    IF outer = <<>> THEN <<>>
    ELSE [i \in DOMAIN MatchesOf(Head(outer)) |-> <<Head(outer), MatchesOf(Head(outer))[i]>>]
             \o JoinPairs(Tail(outer))

\* C12: Join yields one result per matching pair (o, i), by outer element in source
\* order and within one outer element in the order of inner, for every strategy.
JoinInnerOrder == Done("Join") => out1 = JoinPairs(Src)

\* C13: GroupJoin yields one result per outer element, in the order of the outer
\* sequence, each with its matching inner elements in inner order (none: empty), for
\* every strategy.
GroupJoinOuterOrder ==
    Done("GroupJoin") => out1 = [i \in DOMAIN Src |-> <<Src[i], MatchesOf(Src[i])>>]

\* the keys of the groups of a GroupBy result, and the group of key k
GroupKeys == [i \in DOMAIN out1 |-> out1[i][1]]

\* C14: GroupBy yields one group per distinct key of the source; the group of key k
\* holds elementSelector(x) for exactly the source elements x with keySelector(x) = k,
\* in source order.
GroupByPartition ==
    Done("GroupBy") =>
        /\ NoDuplicates(GroupKeys)
        /\ Elems(GroupKeys) = {KeyOf(Q.keysel, Src[i]) : i \in DOMAIN Src}
        /\ \A g \in DOMAIN out1 :
               LET xs == SelectSeq(Src, LAMBDA x : KeyOf(Q.keysel, x) = out1[g][1])
               IN  out1[g][2] = [i \in DOMAIN xs |-> Sel(xs[i])]

\* a GroupBy run with two groups, one of them with two elements in source order
GroupByPartitionSeen ==
    /\ Done("GroupBy") /\ Q.keysel = "parity"
    /\ Len(out1) = 2
    /\ \E g \in DOMAIN out1 : out1[g][2] = <<30, 10>>

\* C15: an explicit-strategy variant compares with the comparer supplied: GroupByEqual
\* puts two source elements in one group iff TEqual reports their keys equal.
GroupByEqualUsesTEqual ==
    (Done("GroupBy") /\ Q.strategy = "Equal") =>
        \A i, j \in DOMAIN Src :
            Equal(Q.cmp, KeyOf(Q.keysel, Src[i]), KeyOf(Q.keysel, Src[j]))
                <=> \E g \in DOMAIN out1 :
                        {Sel(Src[i]), Sel(Src[j])} \subseteq Elems(out1[g][2])

\* the elements of both sequences of a binary call
Both == Elems(Src) \cup Elems(Q.other)

\* C16: Union(A, B) contains every element of A or of B exactly once and nothing
\* else, for every strategy.
UnionIsSet ==
    Done("Union") =>
        /\ \A x \in Both : Cardinality({i \in DOMAIN out1 : KeysMatch(out1[i], x)}) = 1
        /\ Elems(out1) \subseteq Both

\* a Union run with duplicates in A and in B, a common element, and an element of each
\* side only
UnionIsSetSeen ==
    /\ Done("Union")
    /\ ~NoDuplicates(Src) /\ ~NoDuplicates(Q.other)
    /\ Elems(Src) \cap Elems(Q.other) # {}
    /\ Elems(Src) \ Elems(Q.other) # {}
    /\ Elems(Q.other) \ Elems(Src) # {}
    /\ Len(out1) = 3

\* the elements of xs without those that match an earlier element of xs
FirstOccurrences(xs) ==
    LET idx == SelectSeq([i \in DOMAIN xs |-> i],
                         LAMBDA i : \A j \in 1 .. i - 1 : ~KeysMatch(xs[j], xs[i]))
    IN  [n \in DOMAIN idx |-> xs[idx[n]]]

\* C17: UnionEqual(A, B) yields the distinct elements of A in first-occurrence order,
\* then the elements of B not already present, in first-occurrence order.
UnionEqualOrder ==
    (Done("Union") /\ Q.strategy = "Equal") => out1 = FirstOccurrences(Src \o Q.other)

\* C18: Distinct over an element type that offers only operator< yields the distinct
\* elements in the order of their first occurrence in the source.
DistinctLessFirstOccurrence ==
    (Done("Distinct") /\ Q.strategy = DefaultStrategy(FALSE, TRUE, FALSE)) =>
        out1 = FirstOccurrences(Src)

\* no two elements of xs match under the strategy of the call
AllDistinct(xs) == \A i, j \in DOMAIN xs : i # j => ~KeysMatch(xs[i], xs[j])

\* C19: Distinct(Distinct(xs)) and Distinct(xs) contain the same elements, each
\* exactly once, for every strategy.
DistinctIdempotent ==
    pc = "enumerated again" =>
        /\ Elems(out2) = Elems(out1)
        /\ AllDistinct(out1) /\ AllDistinct(out2)

\* Distinct was called on the Distinct of a source with a repeated element between
\* two others, and both results were enumerated
DistinctIdempotentSeen ==
    /\ pc = "enumerated again"
    /\ Len(Src) = 3 /\ Src[1] = Src[3] /\ Src[1] # Src[2]
    /\ Len(out1) = 2 /\ Len(out2) = 2

\* C20: every element of Except(A, B) is an element of A, none equals an element of B,
\* every element of A not in B occurs in the result, and no two result elements are
\* equal, for every strategy.
ExceptIsDifference ==
    Done("Except") =>
        /\ Elems(out1) \subseteq Elems(Src)
        /\ \A i \in DOMAIN out1, j \in DOMAIN Q.other : ~KeysMatch(out1[i], Q.other[j])
        /\ \A i \in DOMAIN Src :
               (\A j \in DOMAIN Q.other : ~KeysMatch(Src[i], Q.other[j]))
                   => \E n \in DOMAIN out1 : KeysMatch(out1[n], Src[i])
        /\ AllDistinct(out1)

\* an Except run that removed an element of A found in B and kept a repeated element
\* of A once
ExceptIsDifferenceSeen ==
    /\ Done("Except")
    /\ Elems(Src) \cap Elems(Q.other) # {}
    /\ ~NoDuplicates(Src)
    /\ Len(out1) = 1
    /\ \E i, j \in DOMAIN Src : i # j /\ Src[i] = out1[1] /\ Src[j] = out1[1]

\* C21: Intersect(A, B) yields exactly the elements occurring in both A and B, each
\* once, for every strategy: the same set whichever of the two sequences is the source
\* (elements are the same when the comparer of the strategy says so; with the standard
\* comparers the set is the intersection of the two sets of elements).
IntersectIsCommon ==
    Done("Intersect") =>
        /\ Elems(out1) \subseteq Elems(Src)
        /\ \A i \in DOMAIN out1 : \E j \in DOMAIN Q.other : KeysMatch(out1[i], Q.other[j])
        /\ \A i \in DOMAIN Src, j \in DOMAIN Q.other :
               KeysMatch(Src[i], Q.other[j])
                   => \E n \in DOMAIN out1 : KeysMatch(out1[n], Src[i])
        /\ AllDistinct(out1)
        /\ Q.cmp # "same_parity" =>
               /\ Elems(out1) = Elems(Src) \cap Elems(Q.other)
               /\ Len(out1) = Cardinality(Elems(Src) \cap Elems(Q.other))

\* an Intersect run over two sequences with repeated elements that have one element
\* in common, the source having an element of its own
IntersectIsCommonSeen ==
    /\ Done("Intersect")
    /\ Q.cmp # "same_parity"
    /\ ~NoDuplicates(Src) /\ ~NoDuplicates(Q.other)
    /\ Elems(Src) \ Elems(Q.other) # {}
    /\ Elems(Src) \cap Elems(Q.other) # {}
    /\ Len(out1) = 1

-----------------------------------------------------------------------------
(* Properties of the terminal operators and of Append / Prepend (SpecCalls) *)

\* a terminal operator returned v
Returned(op) == pc = "returned" /\ scn.family = op

\* the elements of the source that satisfy the predicate of the call
Satisfying == SelectSeq(Xs, LAMBDA x : Holds(scn.p, x))

ElementAtOrDefault ==
    Returned("ElementAt") =>
        out1 = <<IF 0 <= scn.n /\ scn.n < Len(Xs) THEN Xs[scn.n + 1] ELSE DefaultValue>>

\* C24: Last(predicate, d) returns the last source element that satisfies the
\* predicate, or d when there is none, for buffer-backed and generator-backed sources
\* and through both access forms.
LastOrDefault ==
    Returned("Last") =>
        out1 = <<IF Satisfying = <<>> THEN DefaultValue ELSE Satisfying[Len(Satisfying)]>>

\* C28: a stable-access Append / Prepend leaves the source as it was: a stable
\* traversal of the source reads the same elements before the call, after it and
\* after the result was read, and the result holds the source's elements and the
\* added element.
SourceUnchanged ==
    (scn.family \in Adders /\ scn.access = "stable") =>
        /\ ~heap.crashed
        /\ pc = "read before" => out1 = Xs
        /\ pc \in {"read source", "read result", "read both"} => out2 = Xs
        /\ pc \in {"read result", "read both"} =>
               out1 = IF scn.family = "Append" THEN Xs \o <<scn.n>> ELSE <<scn.n>> \o Xs

\* Append(5) was called by stable access on a generator of three elements, the source
\* read after the call and after the result
SourceUnchangedSeen ==
    /\ pc = "read both" /\ scn.family = "Append" /\ scn.access = "stable"
    /\ scn.backing = "Range"
    /\ out1 = <<1, 2, 3, 5>>
    /\ out2 = <<1, 2, 3>>

-----------------------------------------------------------------------------
(* Properties of the strategy selection (SpecAuto) *)

\* the strategy the cascade is to select for the type of a run
Cascade ==
    IF scn.caps.hashable THEN "Hash"
    ELSE IF scn.caps.lessable THEN "Less"
    ELSE IF scn.caps.equalable THEN "Equal"
    ELSE "rejected"

\* C25: the auto-strategy form runs the Hash variant if the type is hashable,
\* otherwise Less if it is ordered, otherwise Equal if it has an equality test; with
\* none of the three the call is rejected at build time, so it never runs: nothing is
\* called, nothing is produced and nothing traps.
CapabilityCascade ==
    scn.q.strategy = "auto" =>
        IF Cascade = "rejected" THEN pc = "start" /\ ~heap.crashed
        ELSE pc # "start" =>
                 /\ seqs["r"] # 0
                 /\ Cell(seqs["r"]).frame.q.op = scn.q.op
                 /\ Cell(seqs["r"]).frame.q.strategy = Cascade

-----------------------------------------------------------------------------
(* Properties of ownership and of cursors (Spec) *)

\* State k was created as a generator
WasGenerator(k) == Cell(k).frame.kind # "none"

\* C26: each generator is destroyed exactly once, by the Flush that replaces it by a
\* Container or when the last Enumerable, cursor or frame referring to its State is
\* gone, also when it was never run to completion: no frame is destroyed twice, a live
\* frame is always referred to, and a State that is no generator any more had its
\* frame destroyed.
DestroyedOnce ==
    \A k \in StateIds :
        /\ Cell(k).destroyed <= 1
        /\ Cell(k).tag = "Coroutine" =>
               Cell(k).destroyed = 0 /\ Referenced(heap, seqs, its, k)
        /\ (WasGenerator(k) /\ Cell(k).tag # "Coroutine") => Cell(k).destroyed = 1
        /\ ~WasGenerator(k) => Cell(k).destroyed = 0

\* a generator that had been resumed, dropped before it ran to completion: its
\* frame was destroyed with the last reference to its State, without a Flush
DestroyedOnceSeen ==
    \E k \in StateIds :
        /\ WasGenerator(k) /\ Cell(k).tag = "Released"
        /\ Cell(k).resumes >= 1 /\ ~Cell(k).frame.done
        /\ Cell(k).flushes = 0 /\ Cell(k).destroyed = 1

\* the elements a cursor has not yet passed: what *i, ++i reads until i == end()
Remaining(w, it) == Traverse(w, it, <<>>, "stale").out

\* C29: the copy of a cursor is at the position of the original: after j = i the
\* elements j has not yet passed are those i had not yet passed, for a cursor over a
\* Container advanced any number of steps and for a cursor over a generator.
CopyKeepsPosition ==
    [][(/\ IterCopy("j", "i")
        /\ its["i"].impl # "null" /\ ~Dangling(heap, its["i"])
        /\ ~heap'.crashed)
           => Remaining(heap', its'["j"]) = Remaining(heap, its["i"])]_vars

\* C30: no cursor of the program holds the handle of a destroyed generator frame.
NoDanglingCursor == \A c \in ItIds : ~Dangling(heap, its[c])

-----------------------------------------------------------------------------
(* Properties of callback exceptions (SpecThrow) *)

\* an operation of the run caught an exception
Caught ==
    pc \in {"caught by the call", "caught by the advance", "caught by the Flush",
            "caught by the terminal operator"}

\* the callback is invoked on the throwing element while the operator call itself
\* runs the body to its first co_yield: Select invokes the selector on the first
\* element, Where the predicate on the elements up to the first one it accepts
DuringTheCall ==
    scn.bad \in 1 .. Min(scn.count, IF scn.family = "Select" THEN 1 ELSE 2)

\* the results the callback produced before the throwing element
ProducedBefore ==
    IF scn.family = "Select" THEN MapSel(Iota(scn.bad - 1)) ELSE Filter(Iota(scn.bad - 1))

\* C27 as stated: an exception raised in a callback reaches, unchanged, the cursor
\* advance, terminal operator or Flush that requested the element, and it is never
\* swallowed: a run that read the whole result never met the throwing element.
CallbackException ==
    /\ Caught => /\ out2 = <<Thrown(scn.bad)>>
                 /\ pc # "caught by the call"
    /\ pc \in {"read", "searched"} => scn.bad \notin 1 .. scn.count

\* C27 amended: the exception reaches, unchanged, the operation that ran the
\* callback: the operator call itself when the throwing element is met while the
\* body runs to its first co_yield, otherwise the cursor advance, terminal operator
\* or Flush that resumed the generator; the elements read before are those produced
\* before, and the exception is never swallowed.
CallbackExceptionAtProducer ==
    /\ Caught => /\ out2 = <<Thrown(scn.bad)>>
                 /\ scn.bad \in 1 .. scn.count
                 /\ (pc = "caught by the call") = DuringTheCall
                 /\ ~heap.crashed
    /\ pc = "caught by the advance" => out1 = ProducedBefore
    /\ pc = "called" => ~DuringTheCall
    /\ pc \in {"read", "searched"} => scn.bad \notin 1 .. scn.count

\* the selector threw on the third element while a cursor advanced to it, after
\* two results had been read
CallbackExceptionSeen ==
    /\ pc = "caught by the advance"
    /\ scn.family = "Select" /\ scn.bad = 3
    /\ out1 = <<10, 20>>
    /\ out2 = <<Thrown(3)>>

====
